---- MODULE Spec2Model ----
(***************************************************************************)
(* Slot reservation state machine of the ayurcare backend: the TimeSlot,   *)
(* Appointment and User tables of the transactional store, the request     *)
(* handlers of doctorController.lockTimeSlot and of appointmentController, *)
(* the OTP verification of authController and the cron lock cleanup job.   *)
(*                                                                         *)
(* Time is counted in minutes since midnight (UTC) of day 0.  A handler    *)
(* runs in two atomic steps, as its awaits allow: the reads it makes       *)
(* before its conditional write or transaction (the ...Read actions), and  *)
(* the conditional write or the whole prisma.$transaction (the ...Write    *)
(* actions).  Other requests and the clock may act between the two.  The   *)
(* response of a finished handler stays in req until Return delivers it.   *)
(***************************************************************************)
EXTENDS Integers, Sequences, FiniteSets, TLC

VARIABLES
    now,          \* the store's clock, SELECT NOW()
    timeSlot,     \* TimeSlot table: id -> row
    appointment,  \* Appointment table: sequence of rows, the id is the index
    user,         \* User table: id -> [otpVerifiedUntil]
    req,          \* request workers: worker -> the request it is handling
    redis         \* the cache: user -> the cached appointment lists and their key set

vars == <<now, timeSlot, appointment, user, req, redis>>

----------------------------------------------------------------------------
(* Bounds of the model *)

MaxNow == 6
MaxAppointments == 3

(* Program constants, in minutes *)

NULL == -1
LOCK_MINUTES == 5
OTP_MINUTES == 5
WINDOW_MINUTES == 1440
DAY_MINUTES == 1440
MAX_ACTIVE_LOCKS == 3

Users == {1, 2}
Doctors == {1, 2}
Workers == {1, 2}

SLOT_STATUS == {"AVAILABLE", "LOCKED", "BOOKED"}
APPOINTMENT_STATUS == {"BOOKED", "COMPLETED", "CANCELLED", "RESCHEDULED"}

----------------------------------------------------------------------------
(* Helpers *)

\* Prisma { lt: t } / { gt: t }: never true of a null column
Lt(x, t) == x # NULL /\ x < t
Gt(x, t) == x # NULL /\ x > t

\* utils/time.js getUtcDateTime(date, "HH:MM")
getUtcDateTime(date, time) == date * DAY_MINUTES + time

\* Date.UTC(y, m, d) of nowUtc, as a day number, and "HH:MM" of nowUtc
todayUtc(t) == t \div DAY_MINUTES
currentHM(t) == t % DAY_MINUTES

SlotIds == DOMAIN timeSlot
ApptIds == DOMAIN appointment

Idle ==
    [op |-> "idle", pc |-> "idle", userId |-> NULL, doctorId |-> NULL,
     slotId |-> NULL, apptId |-> NULL, oldSlotId |-> NULL, status |-> "",
     nowUtc |-> NULL, more24 |-> FALSE, release |-> FALSE, res |-> 0,
     code |-> "", data |-> {}, date |-> NULL]

\* A worker takes a new request when it handles none
Free(w) == req[w].pc = "idle"

Request(op, userId) == [Idle EXCEPT !.op = op, !.userId = userId]

\* res.status(n).json(...): the handler is over
Respond(r, n, code) == [r EXCEPT !.pc = "done", !.res = n, !.code = code]

\* res.status(500): the outer catch of a handler answers an error it does
\* not know
InternalError(r) == Respond(r, 500, "INTERNAL")

\* the response after a commit whose cache invalidation is in a try/catch of
\* its own: a failure of the cache (redisUp false) is logged
CacheCaught(r, n, redisUp) == Respond(r, n, "")

\* the response after a commit whose cache invalidation is in the try of the
\* handler: a failure of the cache is thrown to the outer catch
CacheThrown(r, n, redisUp) == IF redisUp THEN Respond(r, n, "") ELSE InternalError(r)

----------------------------------------------------------------------------
(* The cache of the appointment lists *)

\* the status part of a cache key user:{id}:appointments:{status}:{type}, ""
\* for 'any'; the type part is 'all'
ListKeys == {"", "BOOKED"}

\* redis.get answers null
NoEntry == [hit |-> FALSE, data |-> {}]

\* an empty cache
NoCache == [u \in Users |-> [entry |-> [k \in ListKeys |-> NoEntry], keys |-> {}]]

\* redis.smembers(cacheSetKey), the set user:{id}:appointments:keys
cachedKeys(userId) == redis[userId].keys

\* redis.del of the keys ks and of the set itself
Deleted(userId, ks) ==
    [redis EXCEPT ![userId] =
        [entry |-> [k \in ListKeys |-> IF k \in ks THEN NoEntry ELSE @.entry[k]],
         keys |-> {}]]

\* the invalidation of confirmBooking: nothing is deleted when the set is
\* empty; every call throws when the cache is down
confirmBookingInvalidated(userId, redisUp) ==
    IF redisUp /\ cachedKeys(userId) # {}
    THEN Deleted(userId, cachedKeys(userId))
    ELSE redis

\* the invalidation of cancelAppointment, updateAppointmentStatus and
\* confirmReschedule: the keys of the set, then the set
Invalidated(userId, redisUp) ==
    IF redisUp THEN Deleted(userId, cachedKeys(userId)) ELSE redis

\* a slot as createTimeSlot leaves it, "HH:MM" as the minute of the day
NewSlot(doctorId, date, startTime) ==
    [doctorId |-> doctorId, date |-> date, startTime |-> startTime,
     status |-> "AVAILABLE", lockedBy |-> NULL, lockedAt |-> NULL,
     lockExpires |-> NULL]

----------------------------------------------------------------------------
(* The clock and the OTP gate *)

\* The instants at which the store's clock is read: 0, and every minute from
\* the expiry of a lease taken at 0 on
Instants == {t \in 0..MaxNow : t = 0 \/ t >= LOCK_MINUTES}

\* The store's clock advances to the next instant
Tick ==
    /\ \E t \in Instants : t > now
    /\ now' = CHOOSE t \in Instants : t > now /\ \A x \in Instants : x > now => t <= x
    /\ UNCHANGED <<timeSlot, appointment, user, req, redis>>

\* authController.verifyOTP: the OTP matched; the gate opens for 5 minutes
verifyOTP(u) ==
    /\ user' = [user EXCEPT ![u].otpVerifiedUntil = now + OTP_MINUTES]
    /\ UNCHANGED <<now, timeSlot, appointment, req, redis>>

----------------------------------------------------------------------------
(* doctorController.lockTimeSlot *)

activeLocks(userId, nowUtc) ==
    Cardinality({s \in SlotIds :
        /\ timeSlot[s].lockedBy = userId
        /\ timeSlot[s].status = "LOCKED"
        /\ Gt(timeSlot[s].lockExpires, nowUtc)})

\* the reads before the atomic lock attempt
lockTimeSlotRead(w, userId, doctorId, slotId) ==
    LET r == [Request("lockTimeSlot", userId) EXCEPT
                  !.doctorId = doctorId, !.slotId = slotId, !.nowUtc = now]
        found == slotId \in SlotIds /\ timeSlot[slotId].doctorId = doctorId
        slot == timeSlot[slotId]
        isLockedByOther ==
            /\ slot.status = "LOCKED"
            /\ slot.lockedBy # NULL
            /\ slot.lockedBy # userId
            /\ Gt(slot.lockExpires, now)
    IN  /\ Free(w)
        /\ req' = [req EXCEPT ![w] =
              IF ~found THEN Respond([r EXCEPT !.nowUtc = NULL], 404, "NOT_FOUND")
              ELSE IF slot.status = "BOOKED"
                   THEN Respond([r EXCEPT !.nowUtc = NULL], 409, "ALREADY_BOOKED")
              ELSE IF slot.status = "LOCKED"
                   THEN Respond([r EXCEPT !.nowUtc = NULL], 409, "ALREADY_LOCKED")
              ELSE IF isLockedByOther THEN Respond(r, 409, "TEMPORARILY_LOCKED")
              ELSE IF activeLocks(userId, now) >= MAX_ACTIVE_LOCKS
                   THEN Respond(r, 429, "LOCK_LIMIT")
              ELSE [r EXCEPT !.pc = "write"]]
        /\ UNCHANGED <<now, timeSlot, appointment, user, redis>>

\* a WHERE without the lease conditions: the update of a plain write
lockTimeSlotWhereUnconditional(slot, r) == slot.doctorId = r.doctorId

\* WHERE of the atomic lock attempt
lockTimeSlotWhere(slot, r) ==
    /\ slot.doctorId = r.doctorId
    /\ \/ slot.status = "AVAILABLE"
       \/ slot.lockedBy = r.userId
       \/ Lt(slot.lockExpires, r.nowUtc)

Leased(slot, userId, nowUtc) ==
    [slot EXCEPT !.status = "LOCKED", !.lockedBy = userId,
                 !.lockedAt = nowUtc, !.lockExpires = nowUtc + LOCK_MINUTES]

\* prisma.timeSlot.updateMany: the atomic lock attempt, and the response
lockTimeSlotWrite(w) ==
    LET r == req[w]
        slot == timeSlot[r.slotId]
    IN  /\ r.op = "lockTimeSlot" /\ r.pc = "write"
        /\ IF lockTimeSlotWhere(slot, r)
           THEN /\ timeSlot' = [timeSlot EXCEPT ![r.slotId] = Leased(slot, r.userId, r.nowUtc)]
                /\ req' = [req EXCEPT ![w] = Respond(r, 200, "")]
           ELSE /\ timeSlot' = timeSlot
                /\ req' = [req EXCEPT ![w] = Respond(r, 409, "UNABLE_TO_LOCK")]
        /\ UNCHANGED <<now, appointment, user, redis>>

----------------------------------------------------------------------------
(* The cron lock cleanup job (the reaper) *)

reaperRead(w) ==
    /\ Free(w)
    /\ req' = [req EXCEPT ![w] = [Request("reaper", NULL) EXCEPT !.pc = "write", !.nowUtc = now]]
    /\ UNCHANGED <<now, timeSlot, appointment, user, redis>>

\* a cleanup that also takes the leases that expire at t
ExpiredAtOrBefore(slot, t) ==
    slot.status = "LOCKED" /\ slot.lockExpires # NULL /\ slot.lockExpires <= t

\* a cleanup whose comparison is the wrong way round: gt for lt
ExpiredReversed(slot, t) == slot.status = "LOCKED" /\ Gt(slot.lockExpires, t)

Expired(slot, t) == slot.status = "LOCKED" /\ Lt(slot.lockExpires, t)

Released(slot) ==
    [slot EXCEPT !.status = "AVAILABLE", !.lockedBy = NULL,
                 !.lockedAt = NULL, !.lockExpires = NULL]

reaperWrite(w) ==
    LET r == req[w]
    IN  /\ r.op = "reaper" /\ r.pc = "write"
        /\ timeSlot' = [s \in SlotIds |->
              IF Expired(timeSlot[s], r.nowUtc) THEN Released(timeSlot[s]) ELSE timeSlot[s]]
        /\ req' = [req EXCEPT ![w] = Respond(r, 200, "")]
        /\ UNCHANGED <<now, appointment, user, redis>>

----------------------------------------------------------------------------
(* timeSlotController.getAvailableSlots, with the date query *)

\* the clock is read and the date of the query is checked against today
getAvailableSlotsRead(w, doctorId, date) ==
    LET r == [Request("getAvailableSlots", NULL) EXCEPT
                  !.doctorId = doctorId, !.date = date, !.nowUtc = now]
    IN  /\ Free(w)
        /\ req' = [req EXCEPT ![w] =
              IF date < todayUtc(now) THEN Respond(r, 400, "DATE_IN_PAST")
              ELSE [r EXCEPT !.pc = "write"]]
        /\ UNCHANGED <<now, timeSlot, appointment, user, redis>>

\* the WHERE of prisma.timeSlot.findMany: the doctor, the date and the
\* stored status AVAILABLE
getAvailableSlotsWhere(slot, r) ==
    /\ slot.doctorId = r.doctorId
    /\ slot.date = r.date
    /\ slot.status = "AVAILABLE"

\* slots.filter: of the slots of today only those that start after the
\* minute that was read
notStarted(slot, nowUtc) ==
    slot.date = todayUtc(nowUtc) => slot.startTime > currentHM(nowUtc)

\* prisma.timeSlot.findMany, the filter and the response
getAvailableSlotsFind(w) ==
    LET r == req[w]
        slots == {s \in SlotIds : getAvailableSlotsWhere(timeSlot[s], r)}
        filtered == {s \in slots : notStarted(timeSlot[s], r.nowUtc)}
    IN  /\ r.op = "getAvailableSlots" /\ r.pc = "write"
        /\ req' = [req EXCEPT ![w] = [Respond(r, 200, "") EXCEPT !.data = filtered]]
        /\ UNCHANGED <<now, timeSlot, appointment, user, redis>>

----------------------------------------------------------------------------
(* appointmentController.confirmBooking *)

NewAppointment(userId, doctorId, timeSlotId, notes) ==
    [userId |-> userId, doctorId |-> doctorId, timeSlotId |-> timeSlotId,
     status |-> "BOOKED", notes |-> notes]

\* preconditions that look at the OTP gate before the state of the slot
confirmBookingCheckOtpFirst(userId, doctorId, timeSlotId) ==
    LET found == timeSlotId \in SlotIds /\ timeSlot[timeSlotId].doctorId = doctorId
        slot == timeSlot[timeSlotId]
        otp == user[userId].otpVerifiedUntil
        isLockValid ==
            /\ slot.status = "LOCKED"
            /\ slot.lockedBy = userId
            /\ Gt(slot.lockExpires, now)
    IN  IF ~found THEN "SLOT_NOT_FOUND"
        ELSE IF otp = NULL \/ otp <= now THEN "OTP_REQUIRED"
        ELSE IF slot.status = "BOOKED" THEN "SLOT_ALREADY_BOOKED"
        ELSE IF ~isLockValid THEN "LOCK_INVALID"
        ELSE ""

\* the first precondition that fails, "" when all hold
confirmBookingCheck(userId, doctorId, timeSlotId) ==
    LET found == timeSlotId \in SlotIds /\ timeSlot[timeSlotId].doctorId = doctorId
        slot == timeSlot[timeSlotId]
        otp == user[userId].otpVerifiedUntil
        isLockValid ==
            /\ slot.status = "LOCKED"
            /\ slot.lockedBy = userId
            /\ Gt(slot.lockExpires, now)
    IN  IF ~found THEN "SLOT_NOT_FOUND"
        ELSE IF slot.status = "BOOKED" THEN "SLOT_ALREADY_BOOKED"
        ELSE IF otp = NULL \/ otp <= now THEN "OTP_REQUIRED"
        ELSE IF ~isLockValid THEN "LOCK_INVALID"
        ELSE ""

confirmBookingStatus(code) ==
    IF code = "SLOT_NOT_FOUND" THEN 404
    ELSE IF code = "OTP_REQUIRED" THEN 403
    ELSE 409

\* the precondition reads before the transaction
confirmBookingRead(w, userId, doctorId, timeSlotId, notes) ==
    LET r == [Request("confirmBooking", userId) EXCEPT
                  !.doctorId = doctorId, !.slotId = timeSlotId,
                  !.status = IF notes = NULL THEN "" ELSE "notes", !.nowUtc = now]
        code == confirmBookingCheck(userId, doctorId, timeSlotId)
    IN  /\ Free(w)
        /\ req' = [req EXCEPT ![w] =
              IF code # "" THEN Respond(r, confirmBookingStatus(code), code)
              ELSE [r EXCEPT !.pc = "write"]]
        /\ UNCHANGED <<now, timeSlot, appointment, user, redis>>

\* WHERE of the slot update inside the transaction
confirmBookingWhere(slot, r) ==
    /\ slot.doctorId = r.doctorId
    /\ slot.status = "LOCKED"
    /\ slot.lockedBy = r.userId
    /\ Gt(slot.lockExpires, r.nowUtc)

Booked(slot) ==
    [slot EXCEPT !.status = "BOOKED", !.lockedBy = NULL,
                 !.lockedAt = NULL, !.lockExpires = NULL]

\* the error the transaction throws, "" when it commits
confirmBookingError(r) ==
    LET slot == timeSlot[r.slotId]
    IN  IF slot.date < todayUtc(r.nowUtc) THEN "SLOT_IN_PAST"
        ELSE IF slot.date = todayUtc(r.nowUtc) /\ slot.startTime <= currentHM(r.nowUtc)
             THEN "SLOT_ALREADY_STARTED"
        ELSE IF ~confirmBookingWhere(slot, r) THEN "CONFLICT_SLOT_STATE"
        ELSE IF \E a \in ApptIds : /\ appointment[a].timeSlotId = r.slotId
                                   /\ appointment[a].status = "BOOKED"
             THEN "SLOT_ALREADY_BOOKED"
        ELSE ""

\* a transaction that keeps the slot update when the check of the existing
\* appointment throws after it
confirmBookingSlotsNoRollback(r, err) ==
    IF err \in {"", "SLOT_ALREADY_BOOKED"}
    THEN [timeSlot EXCEPT ![r.slotId] = Booked(timeSlot[r.slotId])]
    ELSE timeSlot

\* the TimeSlot table the transaction leaves: the slot update is rolled back
\* when the transaction throws
confirmBookingSlots(r, err) ==
    IF err = ""
    THEN [timeSlot EXCEPT ![r.slotId] = Booked(timeSlot[r.slotId])]
    ELSE timeSlot

\* prisma.$transaction: commits as a whole or rolls back as a whole; then the
\* cache invalidation, whose failure (redisUp false) is caught and logged
confirmBookingCommit(w, redisUp) ==
    LET r == req[w]
        err == confirmBookingError(r)
    IN  /\ r.op = "confirmBooking" /\ r.pc = "write"
        /\ err = "" => Len(appointment) < MaxAppointments
        /\ timeSlot' = confirmBookingSlots(r, err)
        /\ IF err = ""
           THEN /\ appointment' = Append(appointment,
                      NewAppointment(r.userId, r.doctorId, r.slotId,
                                     IF r.status = "" THEN NULL ELSE 1))
                /\ user' = [user EXCEPT ![r.userId].otpVerifiedUntil = NULL]
                /\ req' = [req EXCEPT ![w] =
                      CacheCaught([r EXCEPT !.apptId = Len(appointment) + 1], 201, redisUp)]
           ELSE /\ UNCHANGED <<appointment, user>>
                /\ req' = [req EXCEPT ![w] = Respond(r, confirmBookingStatus(err), err)]
        /\ redis' = IF err = "" THEN confirmBookingInvalidated(r.userId, redisUp) ELSE redis
        /\ now' = now

\* the transaction of confirmBooking, with the cache up
confirmBookingWrite(w) == confirmBookingCommit(w, TRUE)

----------------------------------------------------------------------------
(* The appointment of a request *)

\* a lookup by id alone, whoever owns the row
findAppointmentOfAnyUser(id, userId) == id \in ApptIds

\* prisma.appointment.findFirst({ where: { id, userId } }), and the
\* findUnique by id followed by appt.userId !== userId: the row is found
\* when it is the caller's
findAppointment(id, userId) == id \in ApptIds /\ appointment[id].userId = userId

----------------------------------------------------------------------------
(* appointmentController.updateAppointmentStatus *)

updateAppointmentStatusRead(w, userId, id, status) ==
    LET r == [Request("updateAppointmentStatus", userId) EXCEPT
                  !.apptId = id, !.status = status]
        found == findAppointment(id, userId)
    IN  /\ Free(w)
        /\ req' = [req EXCEPT ![w] =
              IF ~found THEN Respond(r, 404, "NOT_FOUND")
              ELSE IF status \notin {"BOOKED", "COMPLETED", "CANCELLED"}
                   THEN Respond(r, 400, "INVALID_STATUS")
              ELSE IF appointment[id].status = status THEN Respond(r, 200, "UNCHANGED")
              ELSE [r EXCEPT !.pc = "write"]]
        /\ UNCHANGED <<now, timeSlot, appointment, user, redis>>

\* prisma.appointment.update, then the cache invalidation, whose failure
\* (redisUp false) is thrown to the outer catch
updateAppointmentStatusCommit(w, redisUp) ==
    LET r == req[w]
    IN  /\ r.op = "updateAppointmentStatus" /\ r.pc = "write"
        /\ appointment' = [appointment EXCEPT ![r.apptId].status = r.status]
        /\ req' = [req EXCEPT ![w] = CacheThrown(r, 200, redisUp)]
        /\ redis' = Invalidated(r.userId, redisUp)
        /\ UNCHANGED <<now, timeSlot, user>>

\* the update of updateAppointmentStatus, with the cache up
updateAppointmentStatusWrite(w) == updateAppointmentStatusCommit(w, TRUE)

----------------------------------------------------------------------------
(* appointmentController.rescheduleAppointment: phase 1, lock the new slot *)

\* a window that lets the start at exactly 24 h through: lt for lte
rescheduleWindowClosedStrict(slot, nowUtc) ==
    getUtcDateTime(slot.date, slot.startTime) - nowUtc < WINDOW_MINUTES

\* the original slot starts 24 h or less after nowUtc
rescheduleWindowClosed(slot, nowUtc) ==
    getUtcDateTime(slot.date, slot.startTime) - nowUtc <= WINDOW_MINUTES

rescheduleAppointmentRead(w, userId, id, newTimeSlotId) ==
    LET r == [Request("rescheduleAppointment", userId) EXCEPT
                  !.apptId = id, !.slotId = newTimeSlotId]
        found == findAppointment(id, userId)
        appt == appointment[id]
        old == timeSlot[appt.timeSlotId]
        rr == [r EXCEPT !.nowUtc = now, !.doctorId = appt.doctorId,
                        !.oldSlotId = appt.timeSlotId]
        newFound == newTimeSlotId \in SlotIds /\ timeSlot[newTimeSlotId].doctorId = appt.doctorId
        newSlot == timeSlot[newTimeSlotId]
    IN  /\ Free(w)
        /\ req' = [req EXCEPT ![w] =
              IF ~found THEN Respond(r, 404, "NOT_FOUND")
              ELSE IF appt.status # "BOOKED" THEN Respond(r, 409, "NOT_BOOKED")
              ELSE IF appt.timeSlotId = NULL THEN Respond(r, 409, "NO_ACTIVE_SLOT")
              ELSE IF appt.timeSlotId = newTimeSlotId THEN Respond(r, 400, "SAME_SLOT")
              ELSE IF rescheduleWindowClosed(old, now) THEN Respond(rr, 400, "WITHIN_24H")
              ELSE IF ~newFound THEN Respond(rr, 404, "NEW_SLOT_NOT_FOUND")
              ELSE IF getUtcDateTime(newSlot.date, newSlot.startTime) <= now
                   THEN Respond(rr, 400, "PAST_OR_ONGOING")
              ELSE [rr EXCEPT !.pc = "write"]]
        /\ UNCHANGED <<now, timeSlot, appointment, user, redis>>

\* a WHERE that takes any slot that is not booked, whoever holds its lease
rescheduleAppointmentWhereNotBooked(slot, r) ==
    slot.doctorId = r.doctorId /\ slot.status # "BOOKED"

\* WHERE of the lock of the new slot
rescheduleAppointmentWhere(slot, r) ==
    /\ slot.doctorId = r.doctorId
    /\ \/ slot.status = "AVAILABLE"
       \/ slot.status = "LOCKED" /\ Lt(slot.lockExpires, r.nowUtc)
       \/ slot.lockedBy = r.userId

\* a lock that already gives the old slot back, as phase 2 does
rescheduleAppointmentSlotsFreeingOld(r) ==
    [timeSlot EXCEPT ![r.slotId] = Leased(timeSlot[r.slotId], r.userId, r.nowUtc),
                     ![r.oldSlotId] = Released(timeSlot[r.oldSlotId])]

\* the TimeSlot table the lock leaves when its WHERE matches
rescheduleAppointmentSlots(r) ==
    [timeSlot EXCEPT ![r.slotId] = Leased(timeSlot[r.slotId], r.userId, r.nowUtc)]

rescheduleAppointmentWrite(w) ==
    LET r == req[w]
        slot == timeSlot[r.slotId]
    IN  /\ r.op = "rescheduleAppointment" /\ r.pc = "write"
        /\ IF rescheduleAppointmentWhere(slot, r)
           THEN /\ timeSlot' = rescheduleAppointmentSlots(r)
                /\ req' = [req EXCEPT ![w] = Respond(r, 200, "")]
           ELSE /\ timeSlot' = timeSlot
                /\ req' = [req EXCEPT ![w] = Respond(r, 409, "LOCKED_OR_BOOKED")]
        /\ UNCHANGED <<now, appointment, user, redis>>

----------------------------------------------------------------------------
(* appointmentController.cancelAppointment *)

\* a status check that only refuses what is already cancelled
cancellableUnlessCancelled(appt) == appt.status # "CANCELLED"

\* only a booked appointment is cancelled
cancellable(appt) == appt.status = "BOOKED"

cancelAppointmentRead(w, userId, id) ==
    LET r == [Request("cancelAppointment", userId) EXCEPT !.apptId = id]
        found == findAppointment(id, userId)
        appt == appointment[id]
        hasSlot == appt.timeSlotId # NULL
        slot == timeSlot[appt.timeSlotId]
        isMoreThan24h ==
            IF hasSlot
            THEN getUtcDateTime(slot.date, slot.startTime) - now > WINDOW_MINUTES
            ELSE TRUE
    IN  /\ Free(w)
        /\ req' = [req EXCEPT ![w] =
              IF ~found THEN Respond(r, 404, "NOT_FOUND")
              ELSE IF ~cancellable(appt) THEN Respond(r, 409, "NOT_BOOKED")
              ELSE [r EXCEPT !.pc = "write", !.nowUtc = now,
                             !.oldSlotId = appt.timeSlotId,
                             !.more24 = isMoreThan24h,
                             !.release = hasSlot /\ isMoreThan24h /\ slot.status = "BOOKED"]]
        /\ UNCHANGED <<now, timeSlot, appointment, user, redis>>

\* data of the slot release: lockExpires is not among the fields it sets
cancelReleased(slot) ==
    [slot EXCEPT !.status = "AVAILABLE", !.lockedAt = NULL, !.lockedBy = NULL]

\* prisma.$transaction: release the slot when the reads said so, cancel; then
\* the cache invalidation, whose failure (redisUp false) is caught and logged
cancelAppointmentCommit(w, redisUp) ==
    LET r == req[w]
    IN  /\ r.op = "cancelAppointment" /\ r.pc = "write"
        /\ timeSlot' = IF r.release
                       THEN [timeSlot EXCEPT ![r.oldSlotId] = cancelReleased(timeSlot[r.oldSlotId])]
                       ELSE timeSlot
        /\ appointment' = [appointment EXCEPT ![r.apptId].status = "CANCELLED"]
        /\ req' = [req EXCEPT ![w] = CacheCaught(r, 200, redisUp)]
        /\ redis' = Invalidated(r.userId, redisUp)
        /\ UNCHANGED <<now, user>>

\* the transaction of cancelAppointment, with the cache up
cancelAppointmentWrite(w) == cancelAppointmentCommit(w, TRUE)

\* data.slotReleased of the response of a cancel
slotReleased(r) == r.more24

----------------------------------------------------------------------------
(* appointmentController.confirmReschedule: phase 2 *)

\* a consistency check that takes the old slot from the caller's word
confirmRescheduleCheckNoOldSlot(appt, newSlotId, oldSlotId, doctorId) ==
    IF appt.status # "BOOKED" THEN "NOT_BOOKED"
    ELSE IF appt.doctorId # doctorId THEN "DOCTOR_MISMATCH"
    ELSE IF oldSlotId = newSlotId THEN "SAME_SLOT"
    ELSE ""

\* the first check of the request against the stored appointment that fails,
\* "" when all hold
confirmRescheduleCheck(appt, newSlotId, oldSlotId, doctorId) ==
    IF appt.status # "BOOKED" THEN "NOT_BOOKED"
    ELSE IF appt.doctorId # doctorId THEN "DOCTOR_MISMATCH"
    ELSE IF appt.timeSlotId # oldSlotId THEN "OLD_SLOT_MISMATCH"
    ELSE IF oldSlotId = newSlotId THEN "SAME_SLOT"
    ELSE ""

confirmRescheduleRead(w, userId, appointmentId, newSlotId, oldSlotId, doctorId) ==
    LET r == [Request("confirmReschedule", userId) EXCEPT
                  !.apptId = appointmentId, !.slotId = newSlotId,
                  !.oldSlotId = oldSlotId, !.doctorId = doctorId]
        found == findAppointment(appointmentId, userId)
        code == confirmRescheduleCheck(appointment[appointmentId], newSlotId,
                                       oldSlotId, doctorId)
    IN  /\ Free(w)
        /\ req' = [req EXCEPT ![w] =
              IF ~found THEN Respond(r, 404, "NOT_FOUND")
              ELSE IF code = "NOT_BOOKED" THEN Respond(r, 409, code)
              ELSE IF code # "" THEN Respond(r, 400, code)
              ELSE [r EXCEPT !.pc = "write", !.nowUtc = now]]
        /\ UNCHANGED <<now, timeSlot, appointment, user, redis>>

\* a WHERE that does not look at the expiry of the lease
confirmRescheduleWhereNoExpiry(slot, r) ==
    slot.status = "LOCKED" /\ slot.lockedBy = r.userId

\* WHERE of the booking of the new slot inside the transaction
confirmRescheduleWhere(slot, r) ==
    /\ slot.status = "LOCKED"
    /\ slot.lockedBy = r.userId
    /\ Gt(slot.lockExpires, r.nowUtc)

\* data of the release of the old slot: lockedAt is not among the fields it sets
rescheduleReleased(slot) ==
    [slot EXCEPT !.status = "AVAILABLE", !.lockedBy = NULL, !.lockExpires = NULL]

\* the error the transaction throws, "" when it commits
confirmRescheduleError(r) ==
    LET newFound == r.slotId \in SlotIds /\ timeSlot[r.slotId].doctorId = r.doctorId
        newSlot == timeSlot[r.slotId]
    IN  IF ~newFound THEN "NEW_SLOT_NOT_FOUND"
        ELSE IF \/ newSlot.status # "LOCKED"
                \/ newSlot.lockedBy # r.userId
                \/ Lt(newSlot.lockExpires, r.nowUtc)
             THEN "NEW_SLOT_NOT_LOCKED_BY_USER"
        ELSE IF getUtcDateTime(newSlot.date, newSlot.startTime) <= r.nowUtc
             THEN "SLOT_ALREADY_STARTED_OR_PAST"
        ELSE IF ~confirmRescheduleWhere(newSlot, r) THEN "CONFLICT_NEW_SLOT"
        ELSE ""

confirmRescheduleStatus(err) ==
    IF err = "NEW_SLOT_NOT_FOUND" THEN 404
    ELSE IF err = "SLOT_ALREADY_STARTED_OR_PAST" THEN 400
    ELSE 409

\* a transaction without the updateMany that detaches the other rows
confirmRescheduleAppointmentsNoDetach(r) ==
    LET appt == appointment[r.apptId]
        marked == [appointment EXCEPT ![r.apptId].status = "RESCHEDULED"]
    IN  Append(marked, NewAppointment(appt.userId, appt.doctorId, r.slotId, appt.notes))

\* the Appointment table the transaction leaves: the old row RESCHEDULED, the
\* new row appended, every other row pointing at the new slot detached
confirmRescheduleAppointments(r) ==
    LET appt == appointment[r.apptId]
        marked == [appointment EXCEPT ![r.apptId].status = "RESCHEDULED"]
        created == Append(marked,
            NewAppointment(appt.userId, appt.doctorId, r.slotId, appt.notes))
    IN  [a \in DOMAIN created |->
            IF a # Len(created) /\ created[a].timeSlotId = r.slotId
            THEN [created[a] EXCEPT !.timeSlotId = NULL]
            ELSE created[a]]

\* prisma.$transaction: commits as a whole or rolls back as a whole; then the
\* cache invalidation, whose failure (redisUp false) is thrown to the outer
\* catch
confirmRescheduleCommit(w, redisUp) ==
    LET r == req[w]
        err == confirmRescheduleError(r)
    IN  /\ r.op = "confirmReschedule" /\ r.pc = "write"
        /\ IF err = ""
           THEN /\ Len(appointment) < MaxAppointments
                /\ timeSlot' = [timeSlot EXCEPT
                      ![r.slotId] = Booked(timeSlot[r.slotId]),
                      ![r.oldSlotId] = rescheduleReleased(timeSlot[r.oldSlotId])]
                /\ appointment' = confirmRescheduleAppointments(r)
                /\ req' = [req EXCEPT ![w] = CacheThrown(r, 200, redisUp)]
           ELSE /\ UNCHANGED <<timeSlot, appointment>>
                /\ req' = [req EXCEPT ![w] = Respond(r, confirmRescheduleStatus(err), err)]
        /\ redis' = IF err = "" THEN Invalidated(r.userId, redisUp) ELSE redis
        /\ UNCHANGED <<now, user>>

\* the transaction of confirmReschedule, with the cache up
confirmRescheduleWrite(w) == confirmRescheduleCommit(w, TRUE)

----------------------------------------------------------------------------
(* appointmentController.listAppointments *)

\* prisma.appointment.findMany: the rows of the user, of the status asked for
findMany(userId, status) ==
    {[id |-> a, status |-> appointment[a].status,
      timeSlotId |-> appointment[a].timeSlotId] :
        a \in {b \in ApptIds : /\ appointment[b].userId = userId
                               /\ status = "" \/ appointment[b].status = status}}

\* redis.get: a hit is answered from the cache; a miss reads the clock and
\* the rows
listAppointmentsRead(w, userId, status) ==
    LET r == [Request("listAppointments", userId) EXCEPT !.status = status]
        cachedData == redis[userId].entry[status]
    IN  /\ Free(w)
        /\ req' = [req EXCEPT ![w] =
              IF cachedData.hit
              THEN [Respond(r, 200, "CACHE") EXCEPT !.data = cachedData.data]
              ELSE [r EXCEPT !.pc = "write", !.nowUtc = now,
                             !.data = findMany(userId, status)]]
        /\ UNCHANGED <<now, timeSlot, appointment, user, redis>>

\* redis.set(cacheKey, ...): the rows read are cached under the key of the
\* query, and the key is added to no set; then the response
listAppointmentsWrite(w) ==
    LET r == req[w]
    IN  /\ r.op = "listAppointments" /\ r.pc = "write"
        /\ redis' = [redis EXCEPT ![r.userId].entry[r.status] =
                        [hit |-> TRUE, data |-> r.data]]
        /\ req' = [req EXCEPT ![w] = Respond(r, 200, "")]
        /\ UNCHANGED <<now, timeSlot, appointment, user>>

----------------------------------------------------------------------------
(* The response is sent and the worker takes the next request *)

Return(w) ==
    /\ req[w].pc = "done"
    /\ req' = [req EXCEPT ![w] = Idle]
    /\ UNCHANGED <<now, timeSlot, appointment, user, redis>>

\* no response is waiting to be sent
Quiet == \A w \in DOMAIN req : req[w].pc # "done"

----------------------------------------------------------------------------
(* Lease scenario: slot 1 is free, slot 2 is booked by user 1 (appointment  *)
(* 1), both of doctor 1 and more than 24 h ahead.  The two users lock and   *)
(* book slot 1, user 1 also reschedules onto it, and the reaper runs.       *)

NoUser == [u \in Users |-> [otpVerifiedUntil |-> NULL]]

InitLease ==
    /\ now = 0
    /\ timeSlot = <<NewSlot(1, 1, 30),
                    [NewSlot(1, 2, 30) EXCEPT !.status = "BOOKED"]>>
    /\ appointment = <<NewAppointment(1, 1, 2, NULL)>>
    /\ user = NoUser
    /\ req = [w \in Workers |-> Idle]
    /\ redis = NoCache

NextLease ==
    \/ \E w \in Workers : Return(w)
    \/ Quiet /\ Tick
    \/ Quiet /\ \E u \in Users : verifyOTP(u)
    \/ Quiet /\ \E w \in Workers, u \in Users, s \in SlotIds : lockTimeSlotRead(w, u, 1, s)
    \/ Quiet /\ \E w \in Workers : lockTimeSlotWrite(w)
    \/ Quiet /\ \E w \in Workers, s \in SlotIds : rescheduleAppointmentRead(w, 1, 1, s)
    \/ Quiet /\ \E w \in Workers : rescheduleAppointmentWrite(w)
    \/ Quiet /\ \E w \in Workers, u \in Users, d \in Doctors, s \in 1..3 :
                  confirmBookingRead(w, u, d, s, NULL)
    \/ Quiet /\ \E w \in Workers : confirmBookingWrite(w)
    \/ Quiet /\ \E w \in Workers : reaperRead(w)
    \/ Quiet /\ \E w \in Workers : reaperWrite(w)

SpecLease == InitLease /\ [][NextLease]_vars

----------------------------------------------------------------------------
(* Race scenario: the state of the lease scenario, and three requests that  *)
(* each make one attempt to lease slot 1: lockTimeSlot by one of three      *)
(* users, or rescheduleAppointment of appointment 1 by user 1.              *)

RaceWorkers == {1, 2, 3}
RaceUsers == {1, 2, 3}

InitRace ==
    /\ now = 0
    /\ timeSlot = <<NewSlot(1, 1, 30),
                    [NewSlot(1, 2, 30) EXCEPT !.status = "BOOKED"]>>
    /\ appointment = <<NewAppointment(1, 1, 2, NULL)>>
    /\ user = [u \in RaceUsers |-> [otpVerifiedUntil |-> NULL]]
    /\ req = [w \in RaceWorkers |-> Idle]
    /\ redis = NoCache

NextRace ==
    \/ Tick
    \/ \E w \in RaceWorkers, u \in RaceUsers : lockTimeSlotRead(w, u, 1, 1)
    \/ \E w \in RaceWorkers : lockTimeSlotWrite(w)
    \/ \E w \in RaceWorkers : rescheduleAppointmentRead(w, 1, 1, 1)
    \/ \E w \in RaceWorkers : rescheduleAppointmentWrite(w)

SpecRace == InitRace /\ [][NextRace]_vars

----------------------------------------------------------------------------
(* Cancel scenario: slot 1 of doctor 1 starts at 00:05 of day 1 and is      *)
(* booked by user 1 (appointment 1).  User 1 cancels the appointment and    *)
(* updates its status; user 2 locks and books the slot once it is free and  *)
(* cancels in turn.                                                         *)

InitCancel ==
    /\ now = 0
    /\ timeSlot = <<[NewSlot(1, 1, LOCK_MINUTES) EXCEPT !.status = "BOOKED"]>>
    /\ appointment = <<NewAppointment(1, 1, 1, NULL)>>
    /\ user = NoUser
    /\ req = [w \in Workers |-> Idle]
    /\ redis = NoCache

NextCancel ==
    \/ \E w \in Workers : Return(w)
    \/ Quiet /\ Tick
    \/ Quiet /\ verifyOTP(2)
    \/ Quiet /\ \E w \in Workers : lockTimeSlotRead(w, 2, 1, 1)
    \/ Quiet /\ \E w \in Workers : lockTimeSlotWrite(w)
    \/ Quiet /\ \E w \in Workers : confirmBookingRead(w, 2, 1, 1, NULL)
    \/ Quiet /\ \E w \in Workers : confirmBookingWrite(w)
    \/ Quiet /\ \E w \in Workers, a \in ApptIds : cancelAppointmentRead(w, appointment[a].userId, a)
    \/ Quiet /\ \E w \in Workers : cancelAppointmentWrite(w)
    \/ Quiet /\ \E w \in Workers : updateAppointmentStatusRead(w, 1, 1, "BOOKED")
    \/ Quiet /\ \E w \in Workers : updateAppointmentStatusWrite(w)

SpecCancel == InitCancel /\ [][NextCancel]_vars

----------------------------------------------------------------------------
(* Reschedule scenario: user 1 holds appointment 1 (with notes) on slot 1,  *)
(* more than 24 h ahead; slot 2 is free and far ahead, slot 3 is free and   *)
(* starts at 00:05 of day 0.  User 1 reschedules onto slot 2 or 3 and       *)
(* cancels; both users lock slots.                                          *)

InitReschedule ==
    /\ now = 0
    /\ timeSlot = <<[NewSlot(1, 2, 30) EXCEPT !.status = "BOOKED"],
                    NewSlot(1, 3, 30),
                    NewSlot(1, 0, LOCK_MINUTES)>>
    /\ appointment = <<NewAppointment(1, 1, 1, 1)>>
    /\ user = NoUser
    /\ req = [w \in Workers |-> Idle]
    /\ redis = NoCache

NextReschedule ==
    \/ \E w \in Workers : Return(w)
    \/ Quiet /\ Tick
    \/ Quiet /\ \E w \in Workers, s \in {1, 2} : lockTimeSlotRead(w, 2, 1, s)
    \/ Quiet /\ \E w \in Workers : lockTimeSlotWrite(w)
    \/ Quiet /\ \E w \in Workers, s \in {2, 3} : rescheduleAppointmentRead(w, 1, 1, s)
    \/ Quiet /\ \E w \in Workers : rescheduleAppointmentWrite(w)
    \/ Quiet /\ \E w \in Workers, s \in {2, 3} : confirmRescheduleRead(w, 1, 1, s, 1, 1)
    \/ Quiet /\ \E w \in Workers : confirmRescheduleWrite(w)
    \/ Quiet /\ \E w \in Workers : cancelAppointmentRead(w, 1, 1)
    \/ Quiet /\ \E w \in Workers : cancelAppointmentWrite(w)
    \/ Quiet /\ \E w \in Workers, st \in {"BOOKED", "COMPLETED"} :
                  updateAppointmentStatusRead(w, 1, 1, st)
    \/ Quiet /\ \E w \in Workers : updateAppointmentStatusWrite(w)

SpecReschedule == InitReschedule /\ [][NextReschedule]_vars

----------------------------------------------------------------------------
(* Gate scenario: two free slots of doctor 1, slot 1 at 00:30 of day 1 and  *)
(* slot 2 at 00:05 of day 0, and no appointment.  User 1 verifies an OTP,   *)
(* locks the slots and confirms bookings, with two requests in flight.      *)

InitGate ==
    /\ now = 0
    /\ timeSlot = <<NewSlot(1, 1, 30), NewSlot(1, 0, LOCK_MINUTES)>>
    /\ appointment = <<>>
    /\ user = NoUser
    /\ req = [w \in Workers |-> Idle]
    /\ redis = NoCache

NextGate ==
    \/ \E w \in Workers : Return(w)
    \/ Quiet /\ Tick
    \/ Quiet /\ verifyOTP(1)
    \/ Quiet /\ \E w \in Workers, s \in SlotIds : lockTimeSlotRead(w, 1, 1, s)
    \/ Quiet /\ \E w \in Workers : lockTimeSlotWrite(w)
    \/ Quiet /\ \E w \in Workers, s \in SlotIds : confirmBookingRead(w, 1, 1, s, NULL)
    \/ Quiet /\ \E w \in Workers : confirmBookingWrite(w)

SpecGate == InitGate /\ [][NextGate]_vars

----------------------------------------------------------------------------
(* History scenario: the state a confirmed reschedule leaves.  Appointment  *)
(* 1 of user 1 is RESCHEDULED and still points at slot 1, which is free     *)
(* again; its successor, appointment 2, is BOOKED on slot 2.  User 1        *)
(* reschedules appointment 2, back onto slot 1, and cancels it; user 2      *)
(* locks slot 1.                                                            *)

InitHistory ==
    /\ now = 0
    /\ timeSlot = <<NewSlot(1, 2, 30),
                    [NewSlot(1, 3, 30) EXCEPT !.status = "BOOKED"]>>
    /\ appointment = <<[NewAppointment(1, 1, 1, 1) EXCEPT !.status = "RESCHEDULED"],
                       NewAppointment(1, 1, 2, 1)>>
    /\ user = NoUser
    /\ req = [w \in Workers |-> Idle]
    /\ redis = NoCache

NextHistory ==
    \/ \E w \in Workers : Return(w)
    \/ Quiet /\ Tick
    \/ Quiet /\ \E w \in Workers : lockTimeSlotRead(w, 2, 1, 1)
    \/ Quiet /\ \E w \in Workers : lockTimeSlotWrite(w)
    \/ Quiet /\ \E w \in Workers : rescheduleAppointmentRead(w, 1, 2, 1)
    \/ Quiet /\ \E w \in Workers : rescheduleAppointmentWrite(w)
    \/ Quiet /\ \E w \in Workers : confirmRescheduleRead(w, 1, 2, 1, 2, 1)
    \/ Quiet /\ \E w \in Workers : confirmRescheduleWrite(w)
    \/ Quiet /\ \E w \in Workers : cancelAppointmentRead(w, 1, 2)
    \/ Quiet /\ \E w \in Workers : cancelAppointmentWrite(w)

SpecHistory == InitHistory /\ [][NextHistory]_vars

----------------------------------------------------------------------------
(* Cron scenario: the two free slots of the gate scenario, one request      *)
(* worker for the two users and the cron job as worker 2.  Leases are taken *)
(* while they can still expire before the last instant of the clock.  The   *)
(* cron job is scheduled for ever and the store's clock advances: both are  *)
(* weakly fair.                                                             *)

CronWorker == 2

InitCron ==
    /\ now = 0
    /\ timeSlot = <<NewSlot(1, 1, 30), NewSlot(1, 0, LOCK_MINUTES)>>
    /\ appointment = <<>>
    /\ user = NoUser
    /\ req = [w \in {1, CronWorker} |-> Idle]
    /\ redis = NoCache

NextCron ==
    \/ \E w \in {1, CronWorker} : Return(w)
    \/ Tick
    \/ \E u \in Users : verifyOTP(u)
    \/ now + LOCK_MINUTES < MaxNow /\ \E u \in Users, s \in SlotIds : lockTimeSlotRead(1, u, 1, s)
    \/ lockTimeSlotWrite(1)
    \/ \E u \in Users, s \in SlotIds : confirmBookingRead(1, u, 1, s, NULL)
    \/ confirmBookingWrite(1)
    \/ reaperRead(CronWorker)
    \/ reaperWrite(CronWorker)

SpecCron ==
    /\ InitCron /\ [][NextCron]_vars
    /\ WF_vars(Tick)
    /\ WF_vars(reaperRead(CronWorker))
    /\ WF_vars(reaperWrite(CronWorker))
    /\ WF_vars(Return(CronWorker))

----------------------------------------------------------------------------
(* Cap scenario: four free slots of doctor 1 and a fifth one booked by user *)
(* 1 (appointment 1), all more than 24 h ahead.  User 1 locks slots and     *)
(* reschedules appointment 1 onto them, with two requests in flight, and    *)
(* the reaper runs.                                                         *)

InitCap ==
    /\ now = 0
    /\ timeSlot = <<NewSlot(1, 1, 30), NewSlot(1, 1, 60), NewSlot(1, 1, 90),
                    NewSlot(1, 1, 120),
                    [NewSlot(1, 1, 150) EXCEPT !.status = "BOOKED"]>>
    /\ appointment = <<NewAppointment(1, 1, 5, NULL)>>
    /\ user = NoUser
    /\ req = [w \in Workers |-> Idle]
    /\ redis = NoCache

NextCap ==
    \/ \E w \in Workers : Return(w)
    \/ Quiet /\ Tick
    \/ Quiet /\ \E w \in Workers, s \in SlotIds : lockTimeSlotRead(w, 1, 1, s)
    \/ Quiet /\ \E w \in Workers : lockTimeSlotWrite(w)
    \/ Quiet /\ \E w \in Workers, s \in SlotIds : rescheduleAppointmentRead(w, 1, 1, s)
    \/ Quiet /\ \E w \in Workers : rescheduleAppointmentWrite(w)
    \/ Quiet /\ \E w \in Workers : reaperRead(w)
    \/ Quiet /\ \E w \in Workers : reaperWrite(w)

SpecCap == InitCap /\ [][NextCap]_vars

----------------------------------------------------------------------------
(* Window scenario: user 1 holds appointment 1 on slot 1 of doctor 1, which *)
(* starts at 00:05 of day 1: more than 24 h ahead at 0, exactly 24 h ahead  *)
(* at 5; slot 2 is free and far ahead.  User 1 reschedules onto slot 2,     *)
(* confirms with any doctor, old slot and new slot, and cancels; both users *)
(* lock slot 2.                                                             *)

InitWindow ==
    /\ now = 0
    /\ timeSlot = <<[NewSlot(1, 1, LOCK_MINUTES) EXCEPT !.status = "BOOKED"],
                    NewSlot(1, 3, 30)>>
    /\ appointment = <<NewAppointment(1, 1, 1, NULL)>>
    /\ user = NoUser
    /\ req = [w \in Workers |-> Idle]
    /\ redis = NoCache

NextWindow ==
    \/ \E w \in Workers : Return(w)
    \/ Quiet /\ Tick
    \/ Quiet /\ \E w \in Workers, u \in Users : lockTimeSlotRead(w, u, 1, 2)
    \/ Quiet /\ \E w \in Workers : lockTimeSlotWrite(w)
    \/ Quiet /\ \E w \in Workers, s \in SlotIds : rescheduleAppointmentRead(w, 1, 1, s)
    \/ Quiet /\ \E w \in Workers : rescheduleAppointmentWrite(w)
    \/ Quiet /\ \E w \in Workers, new \in SlotIds, old \in SlotIds, d \in Doctors :
                  confirmRescheduleRead(w, 1, 1, new, old, d)
    \/ Quiet /\ \E w \in Workers : confirmRescheduleWrite(w)
    \/ Quiet /\ \E w \in Workers : cancelAppointmentRead(w, 1, 1)
    \/ Quiet /\ \E w \in Workers : cancelAppointmentWrite(w)

SpecWindow == InitWindow /\ [][NextWindow]_vars

----------------------------------------------------------------------------
(* Cache scenario: user 1 holds appointment 1 on slot 1 of doctor 1, slot 2 *)
(* is free, both far ahead.  User 1 books slot 2, reschedules appointment 1 *)
(* onto it, cancels and completes appointments, one request at a time,      *)
(* while the cache may be down at any commit.                               *)

InitCache ==
    /\ now = 0
    /\ timeSlot = <<[NewSlot(1, 2, 30) EXCEPT !.status = "BOOKED"], NewSlot(1, 3, 30)>>
    /\ appointment = <<NewAppointment(1, 1, 1, NULL)>>
    /\ user = NoUser
    /\ req = [w \in {1} |-> Idle]
    /\ redis = NoCache

NextCache ==
    \/ Return(1)
    \/ Quiet /\ Tick
    \/ Quiet /\ verifyOTP(1)
    \/ Quiet /\ lockTimeSlotRead(1, 1, 1, 2)
    \/ Quiet /\ lockTimeSlotWrite(1)
    \/ Quiet /\ confirmBookingRead(1, 1, 1, 2, NULL)
    \/ Quiet /\ \E redisUp \in BOOLEAN : confirmBookingCommit(1, redisUp)
    \/ Quiet /\ rescheduleAppointmentRead(1, 1, 1, 2)
    \/ Quiet /\ rescheduleAppointmentWrite(1)
    \/ Quiet /\ confirmRescheduleRead(1, 1, 1, 2, 1, 1)
    \/ Quiet /\ \E redisUp \in BOOLEAN : confirmRescheduleCommit(1, redisUp)
    \/ Quiet /\ \E a \in ApptIds : cancelAppointmentRead(1, 1, a)
    \/ Quiet /\ \E redisUp \in BOOLEAN : cancelAppointmentCommit(1, redisUp)
    \/ Quiet /\ \E a \in ApptIds : updateAppointmentStatusRead(1, 1, a, "COMPLETED")
    \/ Quiet /\ \E redisUp \in BOOLEAN : updateAppointmentStatusCommit(1, redisUp)

SpecCache == InitCache /\ [][NextCache]_vars

----------------------------------------------------------------------------
(* Retry scenario: one free slot of doctor 1, more than 24 h ahead.  Worker *)
(* 1 carries the confirmBooking requests of user 1 and keeps the response   *)
(* until it is sent; worker 2 carries the lockTimeSlot requests of the two  *)
(* users and the reaper.                                                    *)

InitRetry ==
    /\ now = 0
    /\ timeSlot = <<NewSlot(1, 1, 30)>>
    /\ appointment = <<>>
    /\ user = NoUser
    /\ req = [w \in Workers |-> Idle]
    /\ redis = NoCache

NextRetry ==
    \/ \E w \in Workers : Return(w)
    \/ Tick
    \/ verifyOTP(1)
    \/ \E u \in Users : lockTimeSlotRead(2, u, 1, 1)
    \/ lockTimeSlotWrite(2)
    \/ confirmBookingRead(1, 1, 1, 1, NULL)
    \/ confirmBookingWrite(1)
    \/ reaperRead(2)
    \/ reaperWrite(2)

SpecRetry == InitRetry /\ [][NextRetry]_vars

----------------------------------------------------------------------------
(* Acquire scenario: the two ways to lease a slot, each applied once to the *)
(* same stored state at the same time.  Slots 1 and 3 of doctor 1 are two   *)
(* copies of one slot state: free, leased to user 1 or to user 2 since an   *)
(* instant not after now, or booked by user 2.  User 1 holds appointment 1  *)
(* on slot 2, far ahead.  Worker 1 carries lockTimeSlot of user 1 on slot   *)
(* 1, worker 2 rescheduleAppointment of appointment 1 onto slot 3.          *)

SlotStates ==
    {NewSlot(1, 1, 30), [NewSlot(1, 1, 30) EXCEPT !.status = "BOOKED"]}
    \cup {Leased(NewSlot(1, 1, 30), u, t) : u \in Users, t \in Instants}

InitAcquire ==
    /\ now \in Instants
    /\ \E slot \in SlotStates :
          /\ slot.lockedAt <= now
          /\ timeSlot = <<slot, [NewSlot(1, 3, 30) EXCEPT !.status = "BOOKED"], slot>>
          /\ appointment =
                IF slot.status = "BOOKED"
                THEN <<NewAppointment(1, 1, 2, NULL), NewAppointment(2, 1, 1, NULL),
                       NewAppointment(2, 1, 3, NULL)>>
                ELSE <<NewAppointment(1, 1, 2, NULL)>>
    /\ user = NoUser
    /\ req = [w \in Workers |-> Idle]
    /\ redis = NoCache

NextAcquire ==
    \/ lockTimeSlotRead(1, 1, 1, 1)
    \/ lockTimeSlotWrite(1)
    \/ rescheduleAppointmentRead(2, 1, 1, 3)
    \/ rescheduleAppointmentWrite(2)

SpecAcquire == InitAcquire /\ [][NextAcquire]_vars

----------------------------------------------------------------------------
(* List scenario: user 1 holds appointment 1 on slot 1 of doctor 1, slot 2  *)
(* is free, both far ahead.  Worker 1 carries the requests of user 1 that   *)
(* write, worker 2 the listAppointments requests of user 1; the cache is up.*)

InitList ==
    /\ now = 0
    /\ timeSlot = <<[NewSlot(1, 2, 30) EXCEPT !.status = "BOOKED"], NewSlot(1, 3, 30)>>
    /\ appointment = <<NewAppointment(1, 1, 1, NULL)>>
    /\ user = NoUser
    /\ req = [w \in Workers |-> Idle]
    /\ redis = NoCache

NextList ==
    \/ \E w \in Workers : Return(w)
    \/ Quiet /\ \E status \in ListKeys : listAppointmentsRead(2, 1, status)
    \/ Quiet /\ listAppointmentsWrite(2)
    \/ Quiet /\ verifyOTP(1)
    \/ Quiet /\ lockTimeSlotRead(1, 1, 1, 2)
    \/ Quiet /\ lockTimeSlotWrite(1)
    \/ Quiet /\ confirmBookingRead(1, 1, 1, 2, NULL)
    \/ Quiet /\ confirmBookingWrite(1)
    \/ Quiet /\ confirmRescheduleRead(1, 1, 1, 2, 1, 1)
    \/ Quiet /\ confirmRescheduleWrite(1)
    \/ Quiet /\ \E a \in ApptIds : cancelAppointmentRead(1, 1, a)
    \/ Quiet /\ cancelAppointmentWrite(1)
    \/ Quiet /\ \E a \in ApptIds : updateAppointmentStatusRead(1, 1, a, "COMPLETED")
    \/ Quiet /\ updateAppointmentStatusWrite(1)

SpecList == InitList /\ [][NextList]_vars

----------------------------------------------------------------------------
(* Owner scenario: user 1 holds appointment 1 on slot 1 and user 2          *)
(* appointment 2 on slot 2, slot 3 is free, all of doctor 1 and far ahead.  *)
(* Either user leases slot 3 and cancels, reschedules and updates either    *)
(* appointment, one request at a time.                                      *)

InitOwner ==
    /\ now = 0
    /\ timeSlot = <<[NewSlot(1, 2, 30) EXCEPT !.status = "BOOKED"],
                    [NewSlot(1, 2, 60) EXCEPT !.status = "BOOKED"],
                    NewSlot(1, 3, 30)>>
    /\ appointment = <<NewAppointment(1, 1, 1, NULL), NewAppointment(2, 1, 2, NULL)>>
    /\ user = NoUser
    /\ req = [w \in {1} |-> Idle]
    /\ redis = NoCache

NextOwner ==
    \/ Return(1)
    \/ Quiet /\ Tick
    \/ Quiet /\ \E u \in Users : lockTimeSlotRead(1, u, 1, 3)
    \/ Quiet /\ lockTimeSlotWrite(1)
    \/ Quiet /\ \E u \in Users, a \in 1..2 : rescheduleAppointmentRead(1, u, a, 3)
    \/ Quiet /\ rescheduleAppointmentWrite(1)
    \/ Quiet /\ \E u \in Users, a \in 1..2 : confirmRescheduleRead(1, u, a, 3, a, 1)
    \/ Quiet /\ confirmRescheduleWrite(1)
    \/ Quiet /\ \E u \in Users, a \in 1..2 : cancelAppointmentRead(1, u, a)
    \/ Quiet /\ cancelAppointmentWrite(1)
    \/ Quiet /\ \E u \in Users, a \in 1..2, st \in {"COMPLETED", "CANCELLED"} :
                   updateAppointmentStatusRead(1, u, a, st)
    \/ Quiet /\ updateAppointmentStatusWrite(1)

SpecOwner == InitOwner /\ [][NextOwner]_vars

----------------------------------------------------------------------------
(* Slots scenario: doctor 1 has slot 1 today at 00:05, slot 2 tomorrow and  *)
(* slot 3 tomorrow, BOOKED.  The two users lease slots 1 and 2, the reaper  *)
(* runs, and the slots of doctor 1 of today or tomorrow are asked for.      *)

InitSlots ==
    /\ now = 0
    /\ timeSlot = <<NewSlot(1, 0, LOCK_MINUTES), NewSlot(1, 1, 30),
                    [NewSlot(1, 1, 60) EXCEPT !.status = "BOOKED"]>>
    /\ appointment = <<NewAppointment(1, 1, 3, NULL)>>
    /\ user = NoUser
    /\ req = [w \in Workers |-> Idle]
    /\ redis = NoCache

NextSlots ==
    \/ \E w \in Workers : Return(w)
    \/ Quiet /\ Tick
    \/ Quiet /\ \E u \in Users, s \in 1..2 : lockTimeSlotRead(1, u, 1, s)
    \/ Quiet /\ lockTimeSlotWrite(1)
    \/ Quiet /\ reaperRead(1)
    \/ Quiet /\ reaperWrite(1)
    \/ Quiet /\ \E date \in 0..1 : getAvailableSlotsRead(2, 1, date)
    \/ Quiet /\ getAvailableSlotsFind(2)

SpecSlots == InitSlots /\ [][NextSlots]_vars

----------------------------------------------------------------------------
(* Properties of the lease *)

\* the attempt of worker w is over and it was an attempt to lease a slot:
\* a lockTimeSlot request, or a rescheduleAppointment that got to its lock
Attempted(w) ==
    /\ req[w].pc = "done"
    /\ \/ req[w].op = "lockTimeSlot"
       \/ req[w].op = "rescheduleAppointment" /\ req[w].code \in {"", "LOCKED_OR_BOOKED"}

Won(w) == Attempted(w) /\ req[w].res = 200

AllDone == \A w \in DOMAIN req : req[w].pc = "done"

DifferentUsers ==
    \A w1, w2 \in DOMAIN req :
        (w1 # w2 /\ req[w1].pc # "idle" /\ req[w2].pc # "idle")
            => req[w1].userId # req[w2].userId

HeldAgainst(slot, userId, t) ==
    \/ slot.status = "BOOKED"
    \/ /\ slot.status = "LOCKED"
       /\ slot.lockedBy # NULL /\ slot.lockedBy # userId
       /\ Gt(slot.lockExpires, t)

\* worker w takes a step of an attempt to lease a slot: lockTimeSlot reads,
\* or lockTimeSlot or rescheduleAppointment makes its conditional write
LockReadStep(w) == req[w].pc = "idle" /\ req'[w].op = "lockTimeSlot"

AcquireWriteStep(w) ==
    /\ req[w].pc = "write" /\ req'[w].pc = "done"
    /\ req[w].op \in {"lockTimeSlot", "rescheduleAppointment"}

\* C5: an attempt of user V to lease a slot that is BOOKED, or LOCKED by
\* another user whose lease has not expired, is answered 409 and leaves the
\* slot as it is.
C5_HeldSlotRejected ==
    [][\A w \in DOMAIN req :
          ((LockReadStep(w) \/ AcquireWriteStep(w))
              /\ HeldAgainst(timeSlot[req'[w].slotId], req'[w].userId, now))
          => /\ req'[w].pc = "done" /\ req'[w].res = 409
             /\ timeSlot' = timeSlot]_vars

\* a conditional write was refused on a slot another user holds a live lease on
C5_Witness ==
    \E w \in DOMAIN req :
        /\ Attempted(w) /\ req[w].res = 409
        /\ req[w].code \in {"UNABLE_TO_LOCK", "LOCKED_OR_BOOKED"}
        /\ timeSlot[req[w].slotId].status = "LOCKED"
        /\ timeSlot[req[w].slotId].lockedBy # req[w].userId
        /\ Gt(timeSlot[req[w].slotId].lockExpires, now)

\* C6 as stated: lockTimeSlot of user V on a slot stored LOCKED by another
\* user with lockExpires < now goes on to its conditional write, and the write
\* leases the slot to V until now + 5 min, whether the reaper ran or not.
C6_ExpiredLeaseTakenOver ==
    [][\A w \in DOMAIN req :
          LET r == req'[w]
              slot == timeSlot[r.slotId]
              expiredOther == /\ slot.status = "LOCKED"
                              /\ slot.lockedBy # NULL /\ slot.lockedBy # r.userId
          IN  /\ (LockReadStep(w) /\ expiredOther /\ Lt(slot.lockExpires, now)
                    /\ activeLocks(r.userId, now) < MAX_ACTIVE_LOCKS)
                 => r.pc = "write"
              /\ (AcquireWriteStep(w) /\ r.op = "lockTimeSlot" /\ expiredOther
                    /\ Lt(slot.lockExpires, r.nowUtc))
                 => /\ r.res = 200
                    /\ timeSlot'[r.slotId].status = "LOCKED"
                    /\ timeSlot'[r.slotId].lockedBy = r.userId
                    /\ timeSlot'[r.slotId].lockExpires = r.nowUtc + LOCK_MINUTES]_vars

\* C7 as stated: lockTimeSlot of the user who holds the lease of a LOCKED
\* slot goes on to its conditional write, and the write renews the lease:
\* the slot stays LOCKED by that user, until now + 5 min.
C7_HolderRenews ==
    [][\A w \in DOMAIN req :
          LET r == req'[w]
              slot == timeSlot[r.slotId]
              held == slot.status = "LOCKED" /\ slot.lockedBy = r.userId
          IN  /\ (LockReadStep(w) /\ held
                    /\ activeLocks(r.userId, now) < MAX_ACTIVE_LOCKS)
                 => r.pc = "write"
              /\ (AcquireWriteStep(w) /\ r.op = "lockTimeSlot" /\ held)
                 => /\ r.res = 200
                    /\ timeSlot'[r.slotId].status = "LOCKED"
                    /\ timeSlot'[r.slotId].lockedBy = r.userId
                    /\ timeSlot'[r.slotId].lockExpires = r.nowUtc + LOCK_MINUTES]_vars

----------------------------------------------------------------------------
(* Properties of booking *)

BookedOn(s) ==
    {a \in ApptIds : appointment[a].timeSlotId = s /\ appointment[a].status = "BOOKED"}

\* C2 as stated: in every reachable state each slot is referenced by at most
\* one Appointment whose status is BOOKED.
C2_OneBookedPerSlot == \A s \in SlotIds : Cardinality(BookedOn(s)) <= 1

\* worker w makes the conditional write (the transaction) of operation op
WriteStep(w, op) ==
    req[w].op = op /\ req[w].pc = "write" /\ req'[w].pc = "done"

\* C3 as stated: a confirmBooking whose slot write takes place when the clock
\* is at or past the lockExpires of the lease on the slot does not book the
\* slot, creates no Appointment and ends with LOCK_INVALID or
\* CONFLICT_SLOT_STATE.
C3_ExpiredLeaseNotBooked ==
    [][\A w \in DOMAIN req :
          LET slot == timeSlot[req[w].slotId]
          IN  (/\ WriteStep(w, "confirmBooking")
               /\ slot.status = "LOCKED"
               /\ slot.lockExpires # NULL /\ now >= slot.lockExpires)
              => /\ timeSlot' = timeSlot /\ appointment' = appointment
                 /\ req'[w].code \in {"LOCK_INVALID", "CONFLICT_SLOT_STATE"}]_vars

\* worker w takes a step of confirmBooking: its reads, or its transaction
ConfirmBookingStep(w) == req'[w].op = "confirmBooking" /\ req'[w] # req[w]

\* C4: every step of a confirmBooking either changes no slot, no Appointment
\* and no OTP gate, or answers 201 and leaves the slot BOOKED with null lease
\* fields, exactly one more Appointment (BOOKED, of the caller, on that slot)
\* and the caller's otpVerifiedUntil null.
C4_AllOrNothing ==
    [][\A w \in DOMAIN req :
          ConfirmBookingStep(w) =>
            LET r == req'[w]
                n == Len(appointment)
            IN  \/ /\ r.res # 201
                   /\ timeSlot' = timeSlot /\ appointment' = appointment /\ user' = user
                \/ /\ r.res = 201
                   /\ timeSlot' = [timeSlot EXCEPT ![r.slotId] =
                          [@ EXCEPT !.status = "BOOKED", !.lockedBy = NULL,
                                    !.lockedAt = NULL, !.lockExpires = NULL]]
                   /\ Len(appointment') = n + 1
                   /\ SubSeq(appointment', 1, n) = appointment
                   /\ appointment'[n + 1].status = "BOOKED"
                   /\ appointment'[n + 1].userId = r.userId
                   /\ appointment'[n + 1].timeSlotId = r.slotId
                   /\ user' = [user EXCEPT ![r.userId].otpVerifiedUntil = NULL]]_vars

\* user 2 booked the slot once (appointment 2), and a later confirmBooking of
\* user 2 was rolled back inside its transaction, after the slot update: the
\* slot is still leased to user 2 and the OTP gate is still open
C4_Witness ==
    \E w \in DOMAIN req :
        /\ req[w].op = "confirmBooking" /\ req[w].pc = "done"
        /\ req[w].res = 409 /\ req[w].code = "SLOT_ALREADY_BOOKED"
        /\ timeSlot[req[w].slotId].status = "LOCKED"
        /\ timeSlot[req[w].slotId].lockedBy = req[w].userId
        /\ user[req[w].userId].otpVerifiedUntil # NULL
        /\ Len(appointment) = 2 /\ appointment[2].userId = req[w].userId

----------------------------------------------------------------------------
(* Properties of reschedule and cancel *)

\* C8: a confirmReschedule whose new slot is not LOCKED by the caller, or
\* whose lease on it has expired, or whose new slot has started, fails; and a
\* confirmReschedule that fails in its transaction changes no slot and no
\* Appointment.
C8_FailedRescheduleChangesNothing ==
    [][\A w \in DOMAIN req :
          WriteStep(w, "confirmReschedule") =>
            LET r == req[w]
                new == timeSlot[r.slotId]
                failing ==
                    \/ new.status # "LOCKED"
                    \/ new.lockedBy # r.userId
                    \/ ~Gt(new.lockExpires, r.nowUtc)
                    \/ getUtcDateTime(new.date, new.startTime) <= r.nowUtc
            IN  /\ failing => req'[w].res # 200
                /\ req'[w].res # 200 => timeSlot' = timeSlot /\ appointment' = appointment]_vars

\* the booking write of a confirmReschedule affected zero rows: the request
\* failed, the appointment is still BOOKED on its old slot, which is still
\* BOOKED, and the new slot is still leased to the caller
C8_Witness ==
    \E w \in DOMAIN req :
        /\ req[w].op = "confirmReschedule" /\ req[w].pc = "done"
        /\ req[w].res = 409 /\ req[w].code = "CONFLICT_NEW_SLOT"
        /\ appointment[req[w].apptId].status = "BOOKED"
        /\ appointment[req[w].apptId].timeSlotId = req[w].oldSlotId
        /\ timeSlot[req[w].oldSlotId].status = "BOOKED"
        /\ timeSlot[req[w].slotId].status = "LOCKED"
        /\ timeSlot[req[w].slotId].lockedBy = req[w].userId
        /\ Len(appointment) = 1

\* C9 as stated: a successful confirmReschedule leaves the new slot BOOKED
\* with null lease fields, the old appointment RESCHEDULED, the old slot
\* AVAILABLE with lockedBy, lockedAt and lockExpires null, and exactly one
\* new Appointment, BOOKED on the new slot, with the userId, doctorId and
\* notes of the old one.
C9_RescheduleResult ==
    [][\A w \in DOMAIN req :
          (WriteStep(w, "confirmReschedule") /\ req'[w].res = 200) =>
            LET r == req[w]
                n == Len(appointment)
                old == appointment[r.apptId]
            IN  /\ timeSlot'[r.slotId] = Booked(timeSlot[r.slotId])
                /\ timeSlot'[r.slotId].status = "BOOKED"
                /\ appointment'[r.apptId].status = "RESCHEDULED"
                /\ timeSlot'[r.oldSlotId].status = "AVAILABLE"
                /\ timeSlot'[r.oldSlotId].lockedBy = NULL
                /\ timeSlot'[r.oldSlotId].lockedAt = NULL
                /\ timeSlot'[r.oldSlotId].lockExpires = NULL
                /\ Len(appointment') = n + 1
                /\ appointment'[n + 1] =
                       [userId |-> old.userId, doctorId |-> old.doctorId,
                        timeSlotId |-> r.slotId, status |-> "BOOKED",
                        notes |-> old.notes]]_vars

\* C10 as stated: the write of a cancelAppointment that found its appointment
\* BOOKED leaves the appointment CANCELLED; it leaves the status of the slot
\* as it is when the slot starts 24 h or less after the handler's now, and
\* leaves the slot AVAILABLE when it starts more than 24 h after.
C10_CancelRule ==
    [][\A w \in DOMAIN req :
          WriteStep(w, "cancelAppointment") =>
            LET r == req[w]
                s == r.oldSlotId
            IN  /\ appointment'[r.apptId].status = "CANCELLED"
                /\ (s # NULL /\ ~r.more24) => timeSlot'[s].status = timeSlot[s].status
                /\ (s # NULL /\ r.more24) => timeSlot'[s].status = "AVAILABLE"]_vars

\* worker w takes the first step of operation op: its reads
ReadStep(w, op) == req[w].pc = "idle" /\ req'[w].op = op

\* C11: cancelAppointment on an appointment of the caller that it finds
\* CANCELLED, COMPLETED or RESCHEDULED answers 409 and changes no Appointment
\* and no slot.
C11_OnlyBookedCancelled ==
    [][\A w \in DOMAIN req :
          (/\ ReadStep(w, "cancelAppointment")
           /\ req'[w].apptId \in ApptIds
           /\ appointment[req'[w].apptId].userId = req'[w].userId
           /\ appointment[req'[w].apptId].status # "BOOKED")
          => /\ req'[w].pc = "done" /\ req'[w].res = 409
             /\ appointment' = appointment /\ timeSlot' = timeSlot]_vars

\* a cancelAppointment was refused on an appointment that had been
\* rescheduled: the old row is still RESCHEDULED, its successor still BOOKED
C11_Witness ==
    \E w \in DOMAIN req :
        /\ req[w].op = "cancelAppointment" /\ req[w].pc = "done"
        /\ req[w].res = 409 /\ req[w].code = "NOT_BOOKED"
        /\ appointment[req[w].apptId].status = "RESCHEDULED"
        /\ Len(appointment) = 2 /\ appointment[2].status = "BOOKED"

\* C12: confirmBooking reports the first precondition that fails, in the
\* order slot missing or of another doctor (404 SLOT_NOT_FOUND), slot BOOKED
\* (409 SLOT_ALREADY_BOOKED), OTP gate null or not after now (403
\* OTP_REQUIRED), slot not LOCKED by the caller with lockExpires > now (409
\* LOCK_INVALID), and then changes no slot, no Appointment and no user.
C12_FirstFailingPrecondition ==
    [][\A w \in DOMAIN req :
          ReadStep(w, "confirmBooking") =>
            LET r == req'[w]
                found == r.slotId \in SlotIds /\ timeSlot[r.slotId].doctorId = r.doctorId
                slot == timeSlot[r.slotId]
                otp == user[r.userId].otpVerifiedUntil
                answer(n, code) == r.pc = "done" /\ r.res = n /\ r.code = code
            IN  /\ timeSlot' = timeSlot /\ appointment' = appointment /\ user' = user
                /\ IF ~found THEN answer(404, "SLOT_NOT_FOUND")
                   ELSE IF slot.status = "BOOKED" THEN answer(409, "SLOT_ALREADY_BOOKED")
                   ELSE IF otp = NULL \/ otp <= now THEN answer(403, "OTP_REQUIRED")
                   ELSE IF ~(/\ slot.status = "LOCKED" /\ slot.lockedBy = r.userId
                             /\ slot.lockExpires # NULL /\ slot.lockExpires > now)
                        THEN answer(409, "LOCK_INVALID")
                   ELSE r.pc = "write"]_vars

\* a confirmBooking of a user whose OTP gate is closed, on a slot that is
\* booked, was answered for the slot and not for the gate
C12_Witness ==
    \E w \in DOMAIN req :
        /\ req[w].op = "confirmBooking" /\ req[w].pc = "done"
        /\ req[w].res = 409 /\ req[w].code = "SLOT_ALREADY_BOOKED"
        /\ timeSlot[req[w].slotId].status = "BOOKED"
        /\ user[req[w].userId].otpVerifiedUntil = NULL

\* C13 as stated: whenever a slot becomes BOOKED, it was LOCKED just before by
\* a user whose lease had not expired at the moment of the write, and the
\* Appointment created with the transition is of that user.
C13_BookedForLeaseHolder ==
    [][\A s \in SlotIds :
          (timeSlot[s].status # "BOOKED" /\ timeSlot'[s].status = "BOOKED") =>
            LET n == Len(appointment)
            IN  /\ timeSlot[s].status = "LOCKED"
                /\ timeSlot[s].lockedBy # NULL
                /\ Gt(timeSlot[s].lockExpires, now)
                /\ Len(appointment') = n + 1
                /\ appointment'[n + 1].userId = timeSlot[s].lockedBy
                /\ appointment'[n + 1].timeSlotId = s
                /\ appointment'[n + 1].status = "BOOKED"]_vars

\* C14 as stated: a confirmBooking of user U that commits while U's
\* otpVerifiedUntil is null (U has booked since the last verification) does
\* not book.
C14_OneBookingPerOtp ==
    [][\A w \in DOMAIN req :
          (/\ WriteStep(w, "confirmBooking")
           /\ user[req[w].userId].otpVerifiedUntil = NULL)
          => /\ req'[w].res # 201
             /\ appointment' = appointment /\ timeSlot' = timeSlot]_vars

\* C15 as stated: a confirmBooking that commits when the slot's date is before
\* today, or is today with a startTime not after the current HH:MM, fails
\* with SLOT_IN_PAST or SLOT_ALREADY_STARTED (409), leaves the slot as it is,
\* creates no Appointment and does not clear the OTP gate.
C15_StartedSlotNotBooked ==
    [][\A w \in DOMAIN req :
          LET slot == timeSlot[req[w].slotId]
          IN  (/\ WriteStep(w, "confirmBooking")
               /\ \/ slot.date < todayUtc(now)
                  \/ slot.date = todayUtc(now) /\ slot.startTime <= currentHM(now))
              => /\ req'[w].res = 409
                 /\ req'[w].code \in {"SLOT_IN_PAST", "SLOT_ALREADY_STARTED"}
                 /\ timeSlot' = timeSlot /\ appointment' = appointment
                 /\ user' = user]_vars

\* C16 as stated: in every reachable state the three lease fields of a slot
\* are all non-null when the slot is LOCKED and all null when it is AVAILABLE
\* or BOOKED.
C16_LeaseFieldsIffLocked ==
    \A s \in SlotIds :
        LET slot == timeSlot[s]
        IN  IF slot.status = "LOCKED"
            THEN slot.lockedBy # NULL /\ slot.lockedAt # NULL /\ slot.lockExpires # NULL
            ELSE slot.lockedBy = NULL /\ slot.lockedAt = NULL /\ slot.lockExpires = NULL

\* C17 as stated: no step changes the status of an Appointment that is
\* RESCHEDULED.
C17_RescheduledIsTerminal ==
    [][\A a \in ApptIds :
          appointment[a].status = "RESCHEDULED"
              => appointment'[a].status = "RESCHEDULED"]_vars

\* C18 as stated: no step changes or nulls the timeSlotId of an Appointment
\* that is RESCHEDULED.
C18_RescheduledKeepsSlot ==
    [][\A a \in ApptIds :
          appointment[a].status = "RESCHEDULED"
              => appointment'[a].timeSlotId = appointment[a].timeSlotId]_vars

----------------------------------------------------------------------------
(* Properties of the reaper *)

\* C19: one run of the reaper, with t the time it read from the store's
\* clock, sets every slot that is LOCKED with lockExpires < t to AVAILABLE
\* with null lease fields and leaves every other slot, every Appointment and
\* every user unchanged; a slot whose lease has not expired when the run
\* writes is never touched; and a second run at the same t would change
\* nothing more.
C19_ReaperRun ==
    [][\A w \in DOMAIN req :
          WriteStep(w, "reaper") =>
            LET t == req[w].nowUtc
                swept(ts) ==
                    [s \in DOMAIN ts |->
                        IF /\ ts[s].status = "LOCKED"
                           /\ ts[s].lockExpires # NULL /\ ts[s].lockExpires < t
                        THEN [ts[s] EXCEPT !.status = "AVAILABLE", !.lockedBy = NULL,
                                           !.lockedAt = NULL, !.lockExpires = NULL]
                        ELSE ts[s]]
            IN  /\ timeSlot' = swept(timeSlot)
                /\ swept(timeSlot') = timeSlot'
                /\ \A s \in SlotIds :
                      (timeSlot[s].lockExpires # NULL /\ timeSlot[s].lockExpires >= now)
                          => timeSlot'[s] = timeSlot[s]
                /\ appointment' = appointment /\ user' = user]_vars

\* a run of the reaper has released the expired lease under which a
\* confirmBooking had passed its reads, while the booked slot 2 is as it was
C19_Witness ==
    \E w1, w2 \in DOMAIN req :
        /\ req[w1].op = "reaper" /\ req[w1].pc = "done"
        /\ req[w2].op = "confirmBooking" /\ req[w2].pc = "write"
        /\ timeSlot[req[w2].slotId] = NewSlot(1, 1, 30)
        /\ req[w1].nowUtc > req[w2].nowUtc + LOCK_MINUTES
        /\ timeSlot[2].status = "BOOKED"

\* C20: with the cron job scheduled and the clock advancing, every slot that
\* is LOCKED is eventually stored as AVAILABLE or BOOKED, whatever the holder
\* of the lease does or does not do.
C20_LeaseEnds ==
    \A s \in {1, 2} : (timeSlot[s].status = "LOCKED") ~> (timeSlot[s].status # "LOCKED")

\* a user leased slot 1 and did nothing more; the cron job ran after the
\* lease had expired and the slot is stored as free again
C20_Witness ==
    /\ req[1].op = "lockTimeSlot" /\ req[1].pc = "done" /\ req[1].res = 200
    /\ req[1].slotId = 1
    /\ req[CronWorker].op = "reaper" /\ req[CronWorker].pc = "done"
    /\ req[CronWorker].nowUtc > req[1].nowUtc + LOCK_MINUTES
    /\ timeSlot[1] = NewSlot(1, 1, 30)
    /\ appointment = <<>>

----------------------------------------------------------------------------
(* Properties of the lease limit *)

\* C21 as stated: a step of lockTimeSlot on a slot of the doctor, taken while
\* the caller holds 3 or more leases with lockExpires > now, answers 429 and
\* changes no slot; and the reads of a caller who holds fewer than 3 such
\* leases are not answered 429.
C21_LeaseLimit ==
    [][\A w \in DOMAIN req :
          (LockReadStep(w) \/ WriteStep(w, "lockTimeSlot")) =>
            LET r == req'[w]
                found == r.slotId \in SlotIds /\ timeSlot[r.slotId].doctorId = r.doctorId
            IN  /\ (found /\ activeLocks(r.userId, now) >= MAX_ACTIVE_LOCKS)
                   => r.pc = "done" /\ r.res = 429 /\ timeSlot' = timeSlot
                /\ (LockReadStep(w) /\ activeLocks(r.userId, now) < MAX_ACTIVE_LOCKS)
                   => r.res # 429]_vars

----------------------------------------------------------------------------
(* Properties of phase 1 of a reschedule *)

\* worker w takes a step of operation op: its reads, or its write
OpStep(w, op) == req'[w].op = op /\ req'[w] # req[w]

\* C22: every step of a rescheduleAppointment leaves every Appointment and
\* every slot but the new one as they are, the appointment's current slot
\* among them; a step that does not answer 200 leaves the new slot as it is
\* too, and the one that answers 200 changes only the status and the lease
\* fields of the new slot.
C22_OnlyNewSlotLeased ==
    [][\A w \in DOMAIN req :
          OpStep(w, "rescheduleAppointment") =>
            LET r == req'[w]
                old == IF r.apptId \in ApptIds
                       THEN appointment[r.apptId].timeSlotId ELSE NULL
            IN  /\ appointment' = appointment
                /\ \A s \in SlotIds : s # r.slotId => timeSlot'[s] = timeSlot[s]
                /\ old # NULL => timeSlot'[old] = timeSlot[old]
                /\ r.res # 200 => timeSlot' = timeSlot
                /\ r.res = 200 =>
                      /\ timeSlot'[r.slotId].doctorId = timeSlot[r.slotId].doctorId
                      /\ timeSlot'[r.slotId].date = timeSlot[r.slotId].date
                      /\ timeSlot'[r.slotId].startTime = timeSlot[r.slotId].startTime
                      /\ timeSlot'[r.slotId].status = "LOCKED"
                      /\ timeSlot'[r.slotId].lockedBy = r.userId]_vars

\* a rescheduleAppointment has leased slot 2 for the caller: appointment 1 is
\* still BOOKED on slot 1 and slot 1 is still BOOKED, with no lease field set
C22_Witness ==
    \E w \in DOMAIN req :
        /\ req[w].op = "rescheduleAppointment" /\ req[w].pc = "done"
        /\ req[w].res = 200 /\ req[w].slotId = 2 /\ req[w].oldSlotId = 1
        /\ timeSlot[2].status = "LOCKED" /\ timeSlot[2].lockedBy = req[w].userId
        /\ timeSlot[2].lockExpires = req[w].nowUtc + LOCK_MINUTES
        /\ appointment = <<NewAppointment(1, 1, 1, 1)>>
        /\ timeSlot[1] = [NewSlot(1, 2, 30) EXCEPT !.status = "BOOKED"]

\* C23: with now the time a rescheduleAppointment reads from the store's
\* clock, a request on a BOOKED appointment of the caller whose slot starts
\* 24 h or less after now (exactly 24 h included) is answered 400 and changes
\* no slot; and a rescheduleAppointment leases the new slot only when the
\* original slot starts more than 24 h after that now.
C23_WindowClosed ==
    [][\A w \in DOMAIN req :
          LET r == req'[w]
              appt == appointment[r.apptId]
              old == timeSlot[appt.timeSlotId]
              start == getUtcDateTime(old.date, old.startTime)
          IN  /\ (/\ ReadStep(w, "rescheduleAppointment")
                  /\ r.apptId \in ApptIds /\ appt.userId = r.userId
                  /\ appt.status = "BOOKED" /\ appt.timeSlotId # NULL
                  /\ start - now <= WINDOW_MINUTES)
                 => r.pc = "done" /\ r.res = 400 /\ timeSlot' = timeSlot
              /\ (OpStep(w, "rescheduleAppointment") /\ timeSlot' # timeSlot)
                 => /\ r.res = 200
                    /\ getUtcDateTime(timeSlot[r.oldSlotId].date,
                                      timeSlot[r.oldSlotId].startTime) - r.nowUtc
                           > WINDOW_MINUTES]_vars

\* a rescheduleAppointment made exactly 24 h before the start of slot 1 was
\* answered 400: appointment 1 is still BOOKED on slot 1 and slot 2 is free
C23_Witness ==
    \E w \in DOMAIN req :
        /\ req[w].op = "rescheduleAppointment" /\ req[w].pc = "done"
        /\ req[w].res = 400 /\ req[w].code = "WITHIN_24H" /\ req[w].slotId = 2
        /\ getUtcDateTime(timeSlot[1].date, timeSlot[1].startTime) - req[w].nowUtc
               = WINDOW_MINUTES
        /\ appointment = <<NewAppointment(1, 1, 1, NULL)>>
        /\ timeSlot[2] = NewSlot(1, 3, 30)

----------------------------------------------------------------------------
(* Properties of phase 2 of a reschedule *)

\* C24: a confirmReschedule on an appointment of the caller that is not
\* BOOKED is answered 409; one on a BOOKED appointment with a doctorId other
\* than the appointment's, an oldSlotId other than the appointment's
\* timeSlotId, or a newSlotId equal to oldSlotId is answered 400; in all these
\* cases no slot and no Appointment is changed.
C24_MismatchRejected ==
    [][\A w \in DOMAIN req :
          (/\ ReadStep(w, "confirmReschedule")
           /\ req'[w].apptId \in ApptIds
           /\ appointment[req'[w].apptId].userId = req'[w].userId) =>
            LET r == req'[w]
                appt == appointment[r.apptId]
                mismatch == \/ appt.doctorId # r.doctorId
                            \/ appt.timeSlotId # r.oldSlotId
                            \/ r.slotId = r.oldSlotId
            IN  /\ appt.status # "BOOKED" => r.pc = "done" /\ r.res = 409
                /\ (appt.status = "BOOKED" /\ mismatch) => r.pc = "done" /\ r.res = 400
                /\ (appt.status # "BOOKED" \/ mismatch)
                   => timeSlot' = timeSlot /\ appointment' = appointment]_vars

\* a confirmReschedule that named slot 2 as the old slot of appointment 1 was
\* answered 400, although the caller holds the lease of slot 2: the
\* appointment is still BOOKED on slot 1 and slot 2 is still leased
C24_Witness ==
    \E w \in DOMAIN req :
        /\ req[w].op = "confirmReschedule" /\ req[w].pc = "done"
        /\ req[w].res = 400 /\ req[w].code = "OLD_SLOT_MISMATCH"
        /\ req[w].oldSlotId = 2 /\ req[w].slotId = 1
        /\ appointment = <<NewAppointment(1, 1, 1, NULL)>>
        /\ timeSlot[1].status = "BOOKED"
        /\ timeSlot[2].status = "LOCKED" /\ timeSlot[2].lockedBy = req[w].userId

----------------------------------------------------------------------------
(* Properties of the cache invalidation *)

\* C25 as stated: a step of confirmBooking, cancelAppointment,
\* confirmReschedule or updateAppointmentStatus that changes a slot, an
\* Appointment or a user (its write has committed) answers 200 or 201,
\* whether the cache calls made after the commit fail or not.
C25_CommitAnswersSuccess ==
    [][\A w \in DOMAIN req :
          (/\ \/ WriteStep(w, "confirmBooking")
              \/ WriteStep(w, "cancelAppointment")
              \/ WriteStep(w, "confirmReschedule")
              \/ WriteStep(w, "updateAppointmentStatus")
           /\ <<timeSlot', appointment', user'>> # <<timeSlot, appointment, user>>)
          => req'[w].res \in {200, 201}]_vars

----------------------------------------------------------------------------
(* Properties of a retry *)

\* the last confirmBooking of userId on slot s was answered with a conflict
ConflictAnswered(userId, s) ==
    \E v \in DOMAIN req :
        /\ req[v].op = "confirmBooking" /\ req[v].pc = "done"
        /\ req[v].userId = userId /\ req[v].slotId = s
        /\ req[v].code \in {"CONFLICT_SLOT_STATE", "LOCK_INVALID"}

\* the slot is free, or stored LOCKED under a lease that has expired at t
NoLiveLease(slot, t) ==
    \/ slot.status = "AVAILABLE"
    \/ slot.status = "LOCKED" /\ ~Gt(slot.lockExpires, t)

\* C26 as stated: once a confirmBooking of user U on a slot was answered
\* CONFLICT_SLOT_STATE or LOCK_INVALID, a lockTimeSlot of U on that slot,
\* made while the slot is not BOOKED and nobody holds a lease on it that has
\* not expired (U's lease was lost or has expired), goes on to its
\* conditional write, and the write leases the slot to U; and a
\* confirmBooking then answered 201 leaves exactly one BOOKED Appointment on
\* the slot.
C26_ConflictRetryable ==
    [][\A w \in DOMAIN req :
          LET r == req'[w]
              retry == /\ ConflictAnswered(r.userId, r.slotId)
                       /\ NoLiveLease(timeSlot[r.slotId], now)
          IN  /\ (LockReadStep(w) /\ retry
                    /\ activeLocks(r.userId, now) < MAX_ACTIVE_LOCKS)
                 => r.pc = "write"
              /\ (WriteStep(w, "lockTimeSlot") /\ retry)
                 => /\ r.res = 200
                    /\ timeSlot'[r.slotId].status = "LOCKED"
                    /\ timeSlot'[r.slotId].lockedBy = r.userId
              /\ (WriteStep(w, "confirmBooking") /\ r.res = 201)
                 => Cardinality({a \in DOMAIN appointment' :
                        /\ appointment'[a].timeSlotId = r.slotId
                        /\ appointment'[a].status = "BOOKED"}) = 1]_vars

----------------------------------------------------------------------------
(* Properties of the two ways to lease a slot *)

\* C27 as stated: lockTimeSlot and the acquire step of rescheduleAppointment,
\* applied by the same caller at the same now to two copies of one stored
\* slot state, either both answer 200 and lease their slot to the caller
\* until now + 5 min, or both answer 409 and leave their slot as it is.
C27_SameAcquire ==
    AllDone =>
        LET leased(w) ==
                /\ req[w].res = 200
                /\ timeSlot[req[w].slotId].status = "LOCKED"
                /\ timeSlot[req[w].slotId].lockedBy = req[w].userId
                /\ timeSlot[req[w].slotId].lockExpires = now + LOCK_MINUTES
            conflict(w) == req[w].res = 409
        IN  \/ leased(1) /\ leased(2)
            \/ conflict(1) /\ conflict(2) /\ timeSlot[1] = timeSlot[3]

----------------------------------------------------------------------------
(* Properties of the response of a cancel *)

\* C28 as stated: the slotReleased flag of a cancelAppointment answered 200
\* is true exactly when the transaction of that cancel took the appointment's
\* slot from BOOKED to AVAILABLE.
C28_SlotReleasedFlag ==
    [][\A w \in DOMAIN req :
          (WriteStep(w, "cancelAppointment") /\ req'[w].res = 200) =>
            LET s == appointment[req[w].apptId].timeSlotId
            IN  slotReleased(req'[w]) <=>
                    /\ s # NULL
                    /\ timeSlot[s].status = "BOOKED"
                    /\ timeSlot'[s].status = "AVAILABLE"]_vars

----------------------------------------------------------------------------
(* Properties of concurrent cancels and reschedules *)

\* C29 as stated: the transaction of a cancelAppointment changes nothing when
\* the appointment is no longer BOOKED at commit time, and never changes a
\* slot that is not BOOKED at commit time: a slot that was released, or has
\* since been LOCKED or BOOKED for another user, is not reset to AVAILABLE.
C29_CancelOnCurrentState ==
    [][\A w \in DOMAIN req :
          WriteStep(w, "cancelAppointment") =>
            /\ appointment[req[w].apptId].status # "BOOKED"
               => appointment' = appointment /\ timeSlot' = timeSlot
            /\ \A s \in SlotIds :
                  timeSlot[s].status # "BOOKED" => timeSlot'[s] = timeSlot[s]]_vars

\* C30 as stated: of a confirmReschedule and a cancelAppointment on the same
\* BOOKED appointment only the first to commit takes effect: the transaction
\* of a confirmReschedule that finds the appointment no longer BOOKED fails
\* and changes no Appointment and no slot, and the transaction of a cancel
\* that finds it RESCHEDULED changes no Appointment and no slot.
C30_CancelOrReschedule ==
    [][\A w \in DOMAIN req :
          LET appt == appointment[req[w].apptId]
          IN  /\ (WriteStep(w, "confirmReschedule") /\ appt.status # "BOOKED")
                 => /\ req'[w].res # 200
                    /\ appointment' = appointment /\ timeSlot' = timeSlot
              /\ (WriteStep(w, "cancelAppointment") /\ appt.status = "RESCHEDULED")
                 => appointment' = appointment /\ timeSlot' = timeSlot]_vars

----------------------------------------------------------------------------
(* Properties of a live lease *)

\* C31 as stated: while a slot is LOCKED by user U with lockExpires > now, no
\* step of a request of another user and no step of the reaper changes the
\* status, lockedBy or lockExpires of that slot.
C31_LiveLeaseKept ==
    [][\A s \in SlotIds, w \in DOMAIN req :
          (/\ timeSlot[s].status = "LOCKED"
           /\ timeSlot[s].lockedBy # NULL
           /\ Gt(timeSlot[s].lockExpires, now)
           /\ req'[w] # req[w]
           /\ req'[w].userId # timeSlot[s].lockedBy)
          => /\ timeSlot'[s].status = timeSlot[s].status
             /\ timeSlot'[s].lockedBy = timeSlot[s].lockedBy
             /\ timeSlot'[s].lockExpires = timeSlot[s].lockExpires]_vars

----------------------------------------------------------------------------
(* Properties of the tables *)

\* C32 as stated: in every reachable state every Appointment whose status is
\* BOOKED has a non-null timeSlotId, and the slot it references is BOOKED.
C32_BookedAppointmentOnBookedSlot ==
    \A a \in ApptIds :
        appointment[a].status = "BOOKED"
            => /\ appointment[a].timeSlotId # NULL
               /\ timeSlot[appointment[a].timeSlotId].status = "BOOKED"

\* C33 as stated: in every reachable state no user holds more than 3 leases
\* with lockExpires > now.
C33_AtMostThreeLeases ==
    \A u \in Users : activeLocks(u, now) <= MAX_ACTIVE_LOCKS

----------------------------------------------------------------------------
(* Properties of the reschedule window, end to end *)

\* C34 as stated: the transaction of a confirmReschedule that read the clock
\* when the appointment's original slot started 24 h or less later does not
\* make the appointment RESCHEDULED and does not release the old slot,
\* whether the new slot was leased by rescheduleAppointment or by
\* lockTimeSlot.
C34_WindowEndToEnd ==
    [][\A w \in DOMAIN req :
          LET r == req[w]
              old == timeSlot[r.oldSlotId]
          IN  (/\ WriteStep(w, "confirmReschedule")
               /\ getUtcDateTime(old.date, old.startTime) - r.nowUtc <= WINDOW_MINUTES)
              => /\ appointment'[r.apptId].status = appointment[r.apptId].status
                 /\ timeSlot'[r.oldSlotId] = old]_vars

----------------------------------------------------------------------------
(* Properties of the slot life cycle *)

\* C35 as stated: the stored status of a slot changes only along
\* AVAILABLE->LOCKED, LOCKED->LOCKED, LOCKED->BOOKED (a confirmBooking or a
\* confirmReschedule of the holder), LOCKED->AVAILABLE (the reaper, and only
\* when lockExpires < now) and BOOKED->AVAILABLE (a cancelAppointment or a
\* confirmReschedule); never AVAILABLE->BOOKED and never BOOKED->LOCKED.
C35_SlotLifeCycle ==
    [][\A s \in SlotIds :
          LET old == timeSlot[s]
              new == timeSlot'[s]
          IN  /\ old.status = "AVAILABLE" => new.status \in {"AVAILABLE", "LOCKED"}
              /\ old.status = "BOOKED" => new.status \in {"BOOKED", "AVAILABLE"}
              /\ (old.status = "LOCKED" /\ new.status = "BOOKED")
                 => \E w \in DOMAIN req :
                       /\ \/ WriteStep(w, "confirmBooking")
                          \/ WriteStep(w, "confirmReschedule")
                       /\ req[w].userId = old.lockedBy
              /\ (old.status = "LOCKED" /\ new.status = "AVAILABLE")
                 => /\ \E w \in DOMAIN req : WriteStep(w, "reaper")
                    /\ Lt(old.lockExpires, now)
              /\ (old.status = "BOOKED" /\ new.status = "AVAILABLE")
                 => \E w \in DOMAIN req :
                       \/ WriteStep(w, "cancelAppointment")
                       \/ WriteStep(w, "confirmReschedule")]_vars

----------------------------------------------------------------------------
(* Properties of the cache *)

\* C37 as stated: when the transaction of a confirmBooking, a
\* cancelAppointment, a confirmReschedule or an updateAppointmentStatus
\* commits and its cache calls succeed, no appointment list of that user is
\* left in the cache.
C37_ListsInvalidated ==
    [][\A w \in DOMAIN req :
          (/\ \E op \in {"confirmBooking", "cancelAppointment",
                         "confirmReschedule", "updateAppointmentStatus"} :
                 WriteStep(w, op)
           /\ req'[w].res \in {200, 201})
          => \A k \in ListKeys : ~redis'[req[w].userId].entry[k].hit]_vars

----------------------------------------------------------------------------
(* Properties of the owner of an appointment *)

OwnerOps ==
    {"cancelAppointment", "rescheduleAppointment", "confirmReschedule",
     "updateAppointmentStatus"}

\* the request r is one of the four operations, on an appointment of
\* another user
OnAnothersAppointment(r) ==
    /\ r.op \in OwnerOps
    /\ r.apptId \in ApptIds
    /\ appointment[r.apptId].userId # r.userId

\* C36: a cancelAppointment, rescheduleAppointment, confirmReschedule or
\* updateAppointmentStatus of user V on an appointment of another user is
\* answered 404 as soon as it is taken, and no step of it changes an
\* Appointment, a slot or the cache: the tables go on as if the request had
\* never been made.
C36_OwnAppointmentsOnly ==
    [][\A w \in DOMAIN req :
          (req'[w] # req[w] /\ OnAnothersAppointment(req'[w]))
          => /\ req'[w].pc = "done" /\ req'[w].res = 404
             /\ appointment' = appointment
             /\ timeSlot' = timeSlot
             /\ redis' = redis]_vars

\* user V, holding a live lease on the new slot, was refused the
\* confirmReschedule of an appointment of another user that is BOOKED on the
\* old slot of the request, with the doctor of the request
C36_Witness ==
    \E w \in DOMAIN req :
        LET r == req[w]
        IN  /\ r.op = "confirmReschedule" /\ r.pc = "done" /\ r.res = 404
            /\ OnAnothersAppointment(r)
            /\ appointment[r.apptId].status = "BOOKED"
            /\ appointment[r.apptId].timeSlotId = r.oldSlotId
            /\ appointment[r.apptId].doctorId = r.doctorId
            /\ timeSlot[r.slotId].status = "LOCKED"
            /\ timeSlot[r.slotId].lockedBy = r.userId
            /\ Gt(timeSlot[r.slotId].lockExpires, now)

----------------------------------------------------------------------------
(* Properties of the readers *)

\* C38 as stated: the answer of getAvailableSlots holds every slot of the
\* doctor and the date of the query that has not started and is effectively
\* free, that is stored AVAILABLE or stored LOCKED with a lockExpires before
\* the clock reading of the request, reaped or not; and it holds no slot
\* that is BOOKED or LOCKED with lockExpires > now.
C38_EffectiveState ==
    [][\A w \in DOMAIN req :
          (WriteStep(w, "getAvailableSlots") /\ req'[w].res = 200)
          => \A s \in SlotIds :
                LET slot == timeSlot[s]
                    r == req[w]
                IN  (/\ slot.doctorId = r.doctorId /\ slot.date = r.date
                     /\ getUtcDateTime(slot.date, slot.startTime) > now)
                    => /\ (\/ slot.status = "AVAILABLE"
                           \/ slot.status = "LOCKED" /\ Lt(slot.lockExpires, r.nowUtc))
                          => s \in req'[w].data
                       /\ (\/ slot.status = "BOOKED"
                           \/ slot.status = "LOCKED" /\ Gt(slot.lockExpires, now))
                          => s \notin req'[w].data]_vars

----------------------------------------------------------------------------
(* Properties of the rows of a rescheduled slot *)

\* C39: the transaction of a confirmReschedule that is answered 200 appends
\* one Appointment, on the new slot; no other row is left with the new slot
\* as its timeSlotId, and a row that pointed at the new slot differs from
\* what it was in its timeSlotId only, which is null.
C39_OnlyRowOnNewSlot ==
    [][\A w \in DOMAIN req :
          (WriteStep(w, "confirmReschedule") /\ req'[w].res = 200)
          => LET s == req[w].slotId
             IN  /\ Len(appointment') = Len(appointment) + 1
                 /\ appointment'[Len(appointment')].timeSlotId = s
                 /\ \A a \in ApptIds :
                       /\ appointment'[a].timeSlotId # s
                       /\ appointment[a].timeSlotId = s
                          => appointment'[a] = [appointment[a] EXCEPT !.timeSlotId = NULL]]_vars

\* a confirmReschedule was answered 200, its new Appointment is the last
\* row, on the new slot, and an earlier row of another appointment, not
\* BOOKED, has been left without a slot
C39_Witness ==
    \E w \in DOMAIN req :
        LET r == req[w]
        IN  /\ r.op = "confirmReschedule" /\ r.pc = "done" /\ r.res = 200
            /\ appointment[Len(appointment)].timeSlotId = r.slotId
            /\ appointment[r.apptId].status = "RESCHEDULED"
            /\ \E a \in ApptIds :
                  /\ a # r.apptId /\ a # Len(appointment)
                  /\ appointment[a].timeSlotId = NULL
                  /\ appointment[a].status # "BOOKED"

====
